---- MODULE Spec2Model ----
(***************************************************************************)
(* Model of the type-collection and name-resolution engine of dts2rs:      *)
(* the type model, the overload resolver (ListOfFunctions) of data.ts and   *)
(* the Collector of collect.ts.                                             *)
(*                                                                         *)
(* Strings are sequences of one-character strings, so that concatenation,   *)
(* comparison (localeCompare) and the candidate names of the resolver are   *)
(* computed as the code computes them.  Identifiers of the model are built  *)
(* from lower-case letters, digits and "_": on these localeCompare(.,"en")  *)
(* is the lexicographic order of the collation ranks of the characters.     *)
(***************************************************************************)
EXTENDS Integers, Sequences, FiniteSets

\* Largest number of functions a ListOfFunctions of the model stores.
MaxFuncs == 3

\* Largest number of nested calls of the Collector the call stack holds.
MaxDepth == 14

-----------------------------------------------------------------------------
(* Strings *)

\* The characters of the model in the order of the "en" collation:
\* white space, punctuation, digits, letters.
Collation ==
    << " ", "_", ":", "0", "1", "2", "3", "4", "5", "6", "7", "8", "9",
       "a", "b", "c", "d", "e", "f", "g", "h", "i", "j", "k", "l", "m",
       "n", "o", "p", "q", "r", "s", "t", "u", "v", "w", "x", "y", "z" >>

CollationRank ==
    [c \in {Collation[i] : i \in 1..Len(Collation)} |->
        CHOOSE i \in 1..Len(Collation) : Collation[i] = c]

CharRank(c) == CollationRank[c]

RECURSIVE localeCompare(_, _)
\* a.localeCompare(b, "en"): negative, zero or positive.
localeCompare(a, b) ==
    IF a = <<>> /\ b = <<>> THEN 0
    ELSE IF a = <<>> THEN -1
    ELSE IF b = <<>> THEN 1
    ELSE IF CharRank(Head(a)) < CharRank(Head(b)) THEN -1
    ELSE IF CharRank(Head(a)) > CharRank(Head(b)) THEN 1
    ELSE localeCompare(Tail(a), Tail(b))

Digits == << "0", "1", "2", "3", "4", "5", "6", "7", "8", "9" >>

RECURSIVE NumToString(_)
\* The decimal digits of a non-negative number ("" + n).
NumToString(n) ==
    IF n < 10 THEN << Digits[n + 1] >>
    ELSE NumToString(n \div 10) \o << Digits[(n % 10) + 1] >>

Letters ==
    << "a", "b", "c", "d", "e", "f", "g", "h", "i", "j", "k", "l", "m",
       "n", "o", "p", "q", "r", "s", "t", "u", "v", "w", "x", "y", "z" >>

\* String.fromCharCode(97 + digit)
FromCharCode97(digit) == Letters[digit + 1]

RECURSIVE NumToAbcLoop(_, _)
\* the while loop of numToAbc
NumToAbcLoop(num, result) ==
    IF num > 0
    THEN NumToAbcLoop(num \div 26, << FromCharCode97(num % 26) >> \o result)
    ELSE result

\* Mutant of numToAbc: only the lowest base-26 digit is kept.
numToAbcLowestDigit(num) == << FromCharCode97(num % 26) >>

\* util.numToAbc
numToAbc(num) ==
    IF num < 0 THEN << "N" >> \o NumToAbcLoop(-num, <<>>)
    ELSE IF num = 0 THEN << "a" >>
    ELSE NumToAbcLoop(num, <<>>)

-----------------------------------------------------------------------------
(* Type model (data.ts) *)

Any == [kind |-> "any"]
Unknown == [kind |-> "unknown"]
Number == [kind |-> "number"]
String == [kind |-> "string"]
Bool == [kind |-> "bool"]
Symbol == [kind |-> "symbol"]
Undefined == [kind |-> "undefined"]
Null == [kind |-> "null"]
Unit == [kind |-> "void"]
Never == [kind |-> "never"]

Optional(subtype) == [kind |-> "optional", subtype |-> subtype]

\* The canBeUndefined field, which is fixed per kind.
canBeUndefined(t) == t.kind \in {"any", "unknown", "undefined", "optional"}

\* The kind discriminants in the order localeCompare(.,"en") gives them.
KindOrder ==
    << "any", "bool", "class", "function", "interface", "never", "null",
       "number", "optional", "string", "symbol", "undefined", "unknown",
       "void" >>

KindOrderRank ==
    [k \in {KindOrder[i] : i \in 1..Len(KindOrder)} |->
        CHOOSE i \in 1..Len(KindOrder) : KindOrder[i] = k]

KindRank(k) == KindOrderRank[k]

\* Mutant of localeCompareKind: the first of two different kinds sorts first.
localeCompareKindFirstWins(a, b) == IF a = b THEN 0 ELSE -1

\* a.kind.localeCompare(b.kind, "en")
localeCompareKind(a, b) ==
    IF KindRank(a) < KindRank(b) THEN -1
    ELSE IF KindRank(a) > KindRank(b) THEN 1 ELSE 0

Variable(jsName, jsType, rustName, type, isOptional) ==
    [jsName |-> jsName, jsType |-> jsType, rustName |-> rustName,
     type |-> type, isOptional |-> isOptional]

FunctionType(args, returnType, returnJsType) ==
    [kind |-> "function", args |-> args, returnType |-> returnType,
     returnJsType |-> returnJsType]

NamedFunction(unresolvedRustName, jsName, signature, docs) ==
    [unresolvedRustName |-> unresolvedRustName, jsName |-> jsName,
     signature |-> signature, docs |-> docs]

NameResolvedFunction(resolvedName, f) == [resolvedName |-> resolvedName, f |-> f]

RECURSIVE NamespaceRec(_)
\* rec() of Namespace.toStringFull; a namespace is the sequence of the
\* rustNames on the path from the root to it (the root is <<>>).
NamespaceRec(ns) ==
    IF ns = <<>> THEN <<>>
    ELSE LET r == NamespaceRec(SubSeq(ns, 1, Len(ns) - 1))
         IN IF r = <<>> THEN ns[Len(ns)]
            ELSE r \o << ":", ":" >> \o ns[Len(ns)]

toStringFull(ns) ==
    LET r == NamespaceRec(ns)
    IN IF r = <<>>
       THEN << "t","h","e"," ","r","o","o","t"," ","n","a","m","e","s","p","a","c","e" >>
       ELSE << "n","a","m","e","s","p","a","c","e"," " >> \o r

NamespaceCmp(a, b) == localeCompare(toStringFull(a), toStringFull(b))

\* ClassOrInterface.cmp
ClassOrInterfaceCmp(a, b) ==
    IF a.rustName # b.rustName THEN localeCompare(a.rustName, b.rustName)
    ELSE NamespaceCmp(a.namespace, b.namespace)

RECURSIVE cmpTypes(_, _), VariableCmp(_, _), FunctionTypeCmp(_, _), CmpArgs(_, _, _)

\* Mutant of cmpTypes: two Optionals never compare equal.
cmpTypesOptionalsDiffer(a, b) ==
    IF a.kind # b.kind THEN localeCompareKind(a.kind, b.kind)
    ELSE CASE a.kind = "optional" -> 1
           [] a.kind = "class" -> ClassOrInterfaceCmp(a, b)
           [] a.kind = "interface" -> ClassOrInterfaceCmp(a, b)
           [] a.kind = "function" -> FunctionTypeCmp(a, b)
           [] OTHER -> 0

cmpTypes(a, b) ==
    IF a.kind # b.kind THEN localeCompareKind(a.kind, b.kind)
    ELSE CASE a.kind = "optional" -> cmpTypes(a.subtype, b.subtype)
           [] a.kind = "class" -> ClassOrInterfaceCmp(a, b)
           [] a.kind = "interface" -> ClassOrInterfaceCmp(a, b)
           [] a.kind = "function" -> FunctionTypeCmp(a, b)
           [] OTHER -> 0

VariableCmp(a, b) ==
    IF a.rustName # b.rustName THEN localeCompare(a.rustName, b.rustName)
    ELSE cmpTypes(a.type, b.type)

\* the for loop of FunctionType.cmp, from index i
CmpArgs(a, b, i) ==
    IF i > Len(a.args) THEN cmpTypes(a.returnType, b.returnType)
    ELSE LET c == VariableCmp(a.args[i], b.args[i])
         IN IF c # 0 THEN c ELSE CmpArgs(a, b, i + 1)

\* Mutant of FunctionTypeCmp: the larger argument count sorts first.
FunctionTypeCmpArityReversed(a, b) ==
    IF Len(a.args) # Len(b.args) THEN Len(b.args) - Len(a.args)
    ELSE CmpArgs(a, b, 1)

\* FunctionType.cmp
FunctionTypeCmp(a, b) ==
    IF Len(a.args) # Len(b.args) THEN Len(a.args) - Len(b.args)
    ELSE CmpArgs(a, b, 1)

typesAreSame(a, b) == cmpTypes(a, b) = 0

NamedFunctionCmp(a, b) ==
    IF a.unresolvedRustName # b.unresolvedRustName
    THEN localeCompare(a.unresolvedRustName, b.unresolvedRustName)
    ELSE FunctionTypeCmp(a.signature, b.signature)

NamedFunctionIsSameAs(a, b) == NamedFunctionCmp(a, b) = 0

-----------------------------------------------------------------------------
(* Overload resolver: ListOfFunctions (data.ts) *)

\* Mutant of iterateResolvedNames: no letter suffix is ever appended.
iterateResolvedNamesNoSuffix(f, k) ==
    IF k = 0 THEN f.unresolvedRustName
    ELSE f.unresolvedRustName \o << "_" >> \o NumToString(Len(f.signature.args))

\* Mutant of iterateResolvedNames: the candidate without a letter is left out.
iterateResolvedNamesLetterFirst(f, k) ==
    IF k = 0 THEN f.unresolvedRustName
    ELSE f.unresolvedRustName \o << "_" >> \o NumToString(Len(f.signature.args))
            \o numToAbc(k - 1)

\* The value the generator iterateResolvedNames(f) yields at its k-th next()
\* (k = 0, 1, 2, ...).
iterateResolvedNames(f, k) ==
    LET numArgs == Len(f.signature.args)
    IN IF k = 0 THEN f.unresolvedRustName
       ELSE IF k = 1 THEN f.unresolvedRustName \o << "_" >> \o NumToString(numArgs)
       ELSE f.unresolvedRustName \o << "_" >> \o NumToString(numArgs) \o numToAbc(k - 2)

NotCached == [defined |-> FALSE, value |-> <<>>]
Cached(v) == [defined |-> TRUE, value |-> v]

\* new ListOfFunctions()
NewListOfFunctions ==
    [functions |-> <<>>,
     cachedResolvedFunctions |-> NotCached,
     cachedUnresolvedNameMap |-> NotCached,
     cachedResolvedNameMap |-> NotCached]

\* Mutant of add: the caches survive the push.
addKeepCaches(l, f) ==
    IF \E i \in 1..Len(l.functions) : NamedFunctionIsSameAs(f, l.functions[i])
    THEN l
    ELSE [l EXCEPT !.functions = Append(@, f)]

\* Mutant of add: every function is pushed.
addAlways(l, f) ==
    [l EXCEPT !.functions = Append(@, f),
              !.cachedResolvedFunctions = NotCached,
              !.cachedUnresolvedNameMap = NotCached,
              !.cachedResolvedNameMap = NotCached]

\* ListOfFunctions.add
add(l, f) ==
    IF \E i \in 1..Len(l.functions) : NamedFunctionIsSameAs(f, l.functions[i])
    THEN l
    ELSE [l EXCEPT !.functions = Append(@, f),
                   !.cachedResolvedFunctions = NotCached,
                   !.cachedUnresolvedNameMap = NotCached,
                   !.cachedResolvedNameMap = NotCached]

count(l) == Len(l.functions)

RECURSIVE InsertSorted(_, _)
InsertSorted(sorted, f) ==
    IF sorted = <<>> THEN << f >>
    ELSE IF NamedFunctionCmp(f, sorted[Len(sorted)]) < 0
         THEN Append(InsertSorted(SubSeq(sorted, 1, Len(sorted) - 1), f),
                     sorted[Len(sorted)])
         ELSE Append(sorted, f)

RECURSIVE SortFrom(_, _, _)
SortFrom(fs, i, sorted) ==
    IF i > Len(fs) THEN sorted
    ELSE SortFrom(fs, i + 1, InsertSorted(sorted, fs[i]))

\* Mutant of SortFunctions: the functions stay in insertion order.
SortFunctionsSkipped(fs) == fs

\* this.functions.sort((a, b) => a.cmp(b)): a stable sort.
SortFunctions(fs) == SortFrom(fs, 1, <<>>)

RECURSIVE FilterPassForgetsName(_, _, _)
\* Mutant of FilterPass: a claimed name is not added to alreadyOutputted.
FilterPassForgetsName(pending, i, st) ==
    IF i > Len(pending) THEN st
    ELSE LET resolver == pending[i]
             name == iterateResolvedNames(resolver.f, resolver.yielded)
         IN FilterPassForgetsName(pending, i + 1,
                [st EXCEPT !.result = Append(@, NameResolvedFunction(name, resolver.f))])

RECURSIVE FilterPass(_, _, _)
\* One notResolvedYet.filter(...) pass from index i.  st holds the pending
\* resolvers that are kept, the names already outputted and the result.
FilterPass(pending, i, st) ==
    IF i > Len(pending) THEN st
    ELSE LET resolver == pending[i]
             name == iterateResolvedNames(resolver.f, resolver.yielded)
             next == [f |-> resolver.f, yielded |-> resolver.yielded + 1]
         IN IF name \in st.alreadyOutputted
            THEN FilterPass(pending, i + 1,
                            [st EXCEPT !.kept = Append(@, next)])
            ELSE FilterPass(pending, i + 1,
                            [st EXCEPT !.alreadyOutputted = @ \cup {name},
                                       !.result = Append(@, NameResolvedFunction(name, resolver.f))])

\* Mutant of Resolvers: every generator has yielded its bare name already.
ResolversPastBareName(fs) == [i \in 1..Len(fs) |-> [f |-> fs[i], yielded |-> 1]]

\* The resolvers of the functions fs, none of which has yielded a name yet.
Resolvers(fs) == [i \in 1..Len(fs) |-> [f |-> fs[i], yielded |-> 0]]

RECURSIVE ResolveLoop(_, _)
\* while (notResolvedYet.length > 0) { ... }: st holds notResolvedYet (kept),
\* alreadyOutputted, the result and the rounds made.  The loop of the model
\* gives up after `fuel` rounds and reports done = FALSE: the code would still
\* be looping.
ResolveLoop(st, fuel) ==
    IF Len(st.kept) = 0
    THEN [result |-> st.result, rounds |-> st.rounds, done |-> TRUE]
    ELSE IF fuel = 0
    THEN [result |-> st.result, rounds |-> st.rounds, done |-> FALSE]
    ELSE ResolveLoop(FilterPass(st.kept, 1, [st EXCEPT !.kept = <<>>, !.rounds = @ + 1]),
                     fuel - 1)

\* Rounds after which the model stops following the loop.
Fuel(fs) == Len(fs) + 2

\* The names given to the functions that are sorted already.
ResolveSorted(sorted) ==
    ResolveLoop([kept |-> Resolvers(sorted), alreadyOutputted |-> {}, result |-> <<>>,
                 rounds |-> 0],
                Fuel(sorted))

\* The sorted functions with r, the result, the rounds and the end of the loop.
WithNames(sorted) == [sorted |-> sorted, r |-> ResolveSorted(sorted)]

\* The uncached path of getResolvedFunctions for the functions fs.
ResolveNames(fs) == WithNames(SortFunctions(fs))

\* The end of the uncached path: the sorted functions and the cache are stored.
StoreResolved(l, n) ==
    [list |-> [l EXCEPT !.functions = n.sorted,
                        !.cachedResolvedFunctions = Cached(n.r.result)],
     ret |-> n.r.result, rounds |-> n.r.rounds, done |-> n.r.done]

\* ListOfFunctions.getResolvedFunctions: the list afterwards, the value
\* returned, the rounds of the loop and whether the loop ended.
getResolvedFunctions(l) ==
    IF l.cachedResolvedFunctions.defined
    THEN [list |-> l, ret |-> l.cachedResolvedFunctions.value, rounds |-> 0, done |-> TRUE]
    ELSE StoreResolved(l, ResolveNames(l.functions))

RECURSIVE GroupBy(_, _, _, _)
\* The Map built by forEach over items, keys[i] being the key of items[i]: a
\* Map keeps its keys in insertion order, so it is a sequence of [key, value]
\* entries.
GroupBy(items, keys, i, map) ==
    IF i > Len(items) THEN map
    ELSE IF \E j \in 1..Len(map) : map[j].key = keys[i]
    THEN GroupBy(items, keys, i + 1,
                 [j \in 1..Len(map) |->
                    IF map[j].key = keys[i]
                    THEN [map[j] EXCEPT !.value = Append(@, items[i])]
                    ELSE map[j]])
    ELSE GroupBy(items, keys, i + 1, Append(map, [key |-> keys[i], value |-> << items[i] >>]))

UnresolvedKey(f) == f.unresolvedRustName
ResolvedKey(rf) == rf.resolvedName

\* The Map from unresolved name to the functions fs that have it.
UnresolvedNameMapOf(fs) ==
    GroupBy(fs, [i \in 1..Len(fs) |-> UnresolvedKey(fs[i])], 1, <<>>)

\* The Map from resolved name to the resolved functions rfs that have it.
ResolvedNameMapOf(rfs) ==
    GroupBy(rfs, [i \in 1..Len(rfs) |-> ResolvedKey(rfs[i])], 1, <<>>)

\* The end of the uncached path of getUnresolvedNameMap.
StoreUnresolvedNameMap(l, result) ==
    [list |-> [l EXCEPT !.cachedUnresolvedNameMap = Cached(result)], ret |-> result]

\* ListOfFunctions.getUnresolvedNameMap
getUnresolvedNameMap(l) ==
    IF l.cachedUnresolvedNameMap.defined
    THEN [list |-> l, ret |-> l.cachedUnresolvedNameMap.value]
    ELSE StoreUnresolvedNameMap(l, UnresolvedNameMapOf(l.functions))

\* The end of the uncached path of getResolvedNameMap, r being what
\* this.getResolvedFunctions() has come to.
StoreResolvedNameMap(r, result) ==
    [list |-> [r.list EXCEPT !.cachedResolvedNameMap = Cached(result)],
     ret |-> result, rounds |-> r.rounds, done |-> r.done]

\* The Map of the resolved functions r.ret, stored.
ResolvedNameMapFrom(r) == StoreResolvedNameMap(r, ResolvedNameMapOf(r.ret))

\* ListOfFunctions.getResolvedNameMap
getResolvedNameMap(l) ==
    IF l.cachedResolvedNameMap.defined
    THEN [list |-> l, ret |-> l.cachedResolvedNameMap.value, rounds |-> 0, done |-> TRUE]
    ELSE ResolvedNameMapFrom(getResolvedFunctions(l))

-----------------------------------------------------------------------------
(* Identifier escaping (util.ts) *)

typeKw == << "t", "y", "p", "e" >>
selfKw == << "s", "e", "l", "f" >>

\* The entries of rustKeywords that the names of the model can hit.
rustKeywords == { typeKw, selfKw }

IsIdentChar(c, i) ==
    \/ c \in { Letters[k] : k \in 1..Len(Letters) }
    \/ c = "_"
    \/ (i > 1 /\ c \in { Digits[k] : k \in 1..Len(Digits) })

\* c.toString(16) for the other characters of the model
HexCode(c) ==
    CASE c = "$" -> << "2", "4" >>
      [] c \in { Digits[k] : k \in 1..Len(Digits) } -> << "3", c >>
      [] OTHER -> << "2", "0" >>

RECURSIVE EscapeChars(_, _, _)
\* the for loop of escapeRustName over name, from index i
EscapeChars(name, i, newName) ==
    IF i > Len(name) THEN newName
    ELSE LET c == name[i]
         IN IF IsIdentChar(c, i) THEN EscapeChars(name, i + 1, Append(newName, c))
            ELSE IF c = "-" \/ c = "." THEN EscapeChars(name, i + 1, Append(newName, "_"))
            ELSE EscapeChars(name, i + 1, newName \o << "_", "U", "x" >> \o HexCode(c))

\* util.escapeRustName for names without surrounding quotes
escapeRustName(name) ==
    EscapeChars(IF name \in rustKeywords THEN name \o << "_", "_" >> ELSE name, 1, <<>>)

-----------------------------------------------------------------------------
(* The oracle: the answers of the TypeScript checker the Collector reads *)

NoSymbol == "none"
NoType == "none"

\* A parameter symbol of a signature, with what its declarations say.
Param(name, type, isOptional, hasDotDotDot) ==
    [name |-> name, type |-> type, isOptional |-> isOptional,
     hasDotDotDot |-> hasDotDotDot]

\* ts.Signature: parameters, getReturnType(), documentation
Signature(parameters, returnType, docs) ==
    [parameters |-> parameters, returnType |-> returnType, docs |-> docs]

NoSignature == Signature(<<>>, NoType, <<>>)

\* A declaration of a member symbol: whether its modifiers are defined, and
\* the kinds of the modifiers.
Declaration(hasModifiers, modifiers) ==
    [hasModifiers |-> hasModifiers, modifiers |-> modifiers]

\* A member symbol listed by type.getProperties(): its type at its value
\* declaration, the Property and Optional flags, and its declarations (none
\* where declarations is undefined or empty).
Member(name, type, isProperty, isOptional, declarations) ==
    [name |-> name, type |-> type, isProperty |-> isProperty,
     isOptional |-> isOptional, declarations |-> declarations]

NoMember == Member(<<>>, NoType, FALSE, FALSE, <<>>)

\* Mutant of isPrivate: every member is public.
isPrivateNever(memSym) == FALSE

\* isPrivate of collectMembers: the first declaration of the member has a
\* protected or private modifier.
isPrivate(memSym) ==
    IF Len(memSym.declarations) > 0 /\ memSym.declarations[1].hasModifiers
    THEN \E k \in 1..Len(memSym.declarations[1].modifiers) :
            memSym.declarations[1].modifiers[k] \in { "ProtectedKeyword", "PrivateKeyword" }
    ELSE FALSE

\* ts.Type
TsType(flags, display, symbol, isUnion, types, callSigs, isClass, isClassOrInterface, baseTypes, properties) ==
    [flags |-> flags, display |-> display, symbol |-> symbol, isUnion |-> isUnion,
     types |-> types, callSigs |-> callSigs, isClass |-> isClass,
     isClassOrInterface |-> isClassOrInterface, baseTypes |-> baseTypes,
     properties |-> properties]

\* ts.Symbol: name, the parts of its fully qualified name, its declared type,
\* whether a declaration lies in an entry file, the Optional flag, and, from
\* its class declarations, the types of the implements clauses and the
\* construct signatures.
TsSymbol(name, fqn, declaredType, inEntryFile, isOptional, implements, constructors, docs) ==
    [name |-> name, fqn |-> fqn, declaredType |-> declaredType,
     inEntryFile |-> inEntryFile, isOptional |-> isOptional,
     implements |-> implements, constructors |-> constructors, docs |-> docs]

\* makeTypeFromOnlyFlags: the first flag of the chain that is set decides.
makeTypeFromOnlyFlags(flags) ==
    IF "Any" \in flags THEN Any
    ELSE IF "String" \in flags THEN String
    ELSE IF "Number" \in flags THEN Number
    ELSE IF "Boolean" \in flags THEN Bool
    ELSE IF "Enum" \in flags THEN Number
    ELSE IF "StringLiteral" \in flags THEN String
    ELSE IF "NumberLiteral" \in flags THEN Number
    ELSE IF "BooleanLiteral" \in flags THEN Bool
    ELSE IF "EnumLiteral" \in flags THEN Number
    ELSE IF "ESSymbol" \in flags THEN Symbol
    ELSE IF "UniqueESSymbol" \in flags THEN Symbol
    ELSE IF "Void" \in flags THEN Unit
    ELSE IF "Undefined" \in flags THEN Undefined
    ELSE IF "Null" \in flags THEN Null
    ELSE IF "Never" \in flags THEN Never
    ELSE IF "TypeParameter" \in flags THEN Unknown
    ELSE IF "Object" \in flags THEN Any
    ELSE Unknown

\* existingTypeFqnMap: collectProgram constructs the Collector with {}.
existingTypeFqnMap == <<>>

-----------------------------------------------------------------------------
(* Collector (collect.ts): the steps of its recursion *)

\* A reference to a ClassType or InterfaceType node: the node of that kind
\* registered under rustName in the namespace.  It is the data.Type value of
\* the node.
NodeRef(kind, namespace, rustName) ==
    [kind |-> kind, rustName |-> rustName, namespace |-> namespace]

NoRef == [kind |-> "none", rustName |-> <<>>, namespace |-> <<>>]

\* new ClassType(jsName, ns, docs) / new InterfaceType(jsName, ns, docs);
\* symbol is the oracle symbol the node was created for.
NewNode(kind, jsName, namespace, docs, symbol) ==
    [kind |-> kind, jsName |-> jsName, rustName |-> escapeRustName(jsName),
     namespace |-> namespace, docs |-> docs, superClass |-> NoRef,
     directImpls |-> <<>>, methods |-> NewListOfFunctions, properties |-> <<>>,
     constructors |-> NewListOfFunctions, staticMethods |-> NewListOfFunctions,
     symbol |-> symbol]

RefOf(node) == NodeRef(node.kind, node.namespace, node.rustName)

\* ClassOrInterface.pushDirectImpl
pushDirectImpl(node, i) ==
    IF \E k \in 1..Len(node.directImpls) : node.directImpls[k].rustName = i.rustName
    THEN node
    ELSE [node EXCEPT !.directImpls = Append(@, i)]

\* parseFQN on the parts of a fully qualified name
parseFQN(fqn) == [i \in 1..Len(fqn) |-> escapeRustName(fqn[i])]

\* collectSymbolEnclosingNamespaces: the namespace of the symbol, its name in
\* it, and the namespaces getOrCreateSubNamespace has to exist on the way.
collectSymbolEnclosingNamespaces(sy) ==
    LET parsedFqn == parseFQN(sy.fqn)
        n == Len(parsedFqn)
    IN [ns |-> SubSeq(parsedFqn, 1, n - 1),
        name |-> parsedFqn[n],
        visited |-> { SubSeq(parsedFqn, 1, k) : k \in 0..(n - 1) }]

\* A call a frame still has to make, or (kind "value") a value it has already.
Task(kind, sym, type, sig, member, value) ==
    [kind |-> kind, sym |-> sym, type |-> type, sig |-> sig, member |-> member,
     value |-> value]

\* collectSymbolAndTypeWithoutOptionalOrStoring: the call that decides the
\* result, or the result where no call is made.  No symbol of the model has
\* the Function flag, so the collectFunction branch is never taken; no class
\* of the model is named "Sprite", so collectClass reads no static method.
collectSymbolAndTypeTask(o, sym, type) ==
    LET ty == o.types[type]
        sy == o.symbols[sym]
    IN IF Len(ty.callSigs) = 1
       THEN Task("closure", sym, type, ty.callSigs[1], NoMember, Unknown)
       ELSE IF sy.inEntryFile /\ ty.isClass
       THEN Task("class", sym, type, NoSignature, NoMember, Unknown)
       ELSE IF sy.inEntryFile /\ ty.isClassOrInterface
       THEN Task("interface", sym, type, NoSignature, NoMember, Unknown)
       ELSE IF ~sy.inEntryFile
               /\ \E k \in 1..Len(existingTypeFqnMap) : existingTypeFqnMap[k].key = sy.fqn
       THEN Task("value", sym, type, NoSignature, NoMember,
                 existingTypeFqnMap[CHOOSE k \in 1..Len(existingTypeFqnMap) :
                                        existingTypeFqnMap[k].key = sy.fqn].value)
       ELSE Task("value", sym, type, NoSignature, NoMember, makeTypeFromOnlyFlags(ty.flags))

\* collectSymbolAndTypeWithoutStoring: the Optional wrapper of an optional symbol
wrapIfOptionalSymbol(o, sym, result) ==
    IF sym # NoSymbol /\ o.symbols[sym].isOptional THEN Optional(result) ELSE result

\* collectTypeWithoutStoring: the calls that decide the result of a type
collectTypeTasks(o, type) ==
    LET ty == o.types[type]
    IN IF ty.isUnion
       THEN [i \in 1..Len(ty.types) |->
                Task("branch", NoSymbol, ty.types[i], NoSignature, NoMember, Unknown)]
       ELSE IF Len(ty.callSigs) = 1
       THEN << Task("closure", NoSymbol, type, ty.callSigs[1], NoMember, Unknown) >>
       ELSE IF ty.symbol = NoSymbol
       THEN << Task("value", NoSymbol, type, NoSignature, NoMember,
                    makeTypeFromOnlyFlags(ty.flags)) >>
       ELSE << collectSymbolAndTypeTask(o, ty.symbol, type) >>

\* Mutant of unionResult: the first branch decides.
unionResultFirstBranch(types) == types[1]

\* The result of a union from the results of its branches.
unionResult(types) ==
    IF \A i \in 2..Len(types) : typesAreSame(types[1], types[i])
    THEN types[1]
    ELSE Unknown

\* collectSignature: the return type first, then every parameter in order.
collectSignatureTasks(sig) ==
    << Task("ret", NoSymbol, sig.returnType, NoSignature, NoMember, Unknown) >>
    \o [i \in 1..Len(sig.parameters) |->
          Task("param", NoSymbol, sig.parameters[i].type, NoSignature,
               sig.parameters[i], Unknown)]

\* Mutant of collectClosure: every signature is pushed.
collectClosureAlwaysPush(closures, signature) ==
    [closures |-> Append(closures, signature), value |-> signature]

\* collectClosure: the registered signature that is the same, or the new one.
collectClosure(closures, signature) ==
    IF \E k \in 1..Len(closures) : FunctionTypeCmp(closures[k], signature) = 0
    THEN [closures |-> closures,
          value |-> closures[CHOOSE k \in 1..Len(closures) :
                        /\ FunctionTypeCmp(closures[k], signature) = 0
                        /\ \A j \in 1..(k - 1) : FunctionTypeCmp(closures[j], signature) # 0]]
    ELSE [closures |-> Append(closures, signature), value |-> signature]

RECURSIVE FlattenTasks(_)
FlattenTasks(seqs) ==
    IF seqs = <<>> THEN <<>> ELSE Head(seqs) \o FlattenTasks(Tail(seqs))

\* collectMembers: for every member that is not private or protected, one
\* collectSignature per call signature of its type and, for a property, one
\* collectType.
collectMembersTasks(o, type) ==
    LET members == o.types[type].properties
        OfMember(m) ==
            IF isPrivate(m) THEN <<>>
            ELSE [k \in 1..Len(o.types[m.type].callSigs) |->
                     Task("method", NoSymbol, m.type, o.types[m.type].callSigs[k], m, Unknown)]
                 \o (IF m.isProperty
                     THEN << Task("prop", NoSymbol, m.type, NoSignature, m, Unknown) >>
                     ELSE <<>>)
    IN FlattenTasks([i \in 1..Len(members) |-> OfMember(members[i])])

\* The bases.forEach loop of collectClass and collectInterface.
baseTasks(o, type) ==
    [i \in 1..Len(o.types[type].baseTypes) |->
        Task("base", o.types[o.types[type].baseTypes[i]].symbol, o.types[type].baseTypes[i],
             NoSignature, NoMember, Unknown)]

\* The heritage clauses and the construct signatures of the class declarations.
declarationTasks(o, sym) ==
    [i \in 1..Len(o.symbols[sym].implements) |->
        Task("impl", o.types[o.symbols[sym].implements[i]].symbol, o.symbols[sym].implements[i],
             NoSignature, NoMember, Unknown)]
    \o [i \in 1..Len(o.symbols[sym].constructors) |->
        Task("ctor", NoSymbol, NoType, o.symbols[sym].constructors[i], NoMember, Unknown)]

\* What collectClass does after it has registered the node.
collectClassTasks(o, sym, type) ==
    baseTasks(o, type) \o declarationTasks(o, sym) \o collectMembersTasks(o, type)

\* What collectInterface does after it has registered the node.
collectInterfaceTasks(o, sym, type) ==
    baseTasks(o, type) \o collectMembersTasks(o, type)

\* Mutant of calleeOfBase: every base class is collected.
calleeOfBaseEveryClass(o, node, task) ==
    LET ty == o.types[task.type]
    IN IF task.sym = NoSymbol THEN "skip"
       ELSE IF node.kind = "class" /\ ty.isClass THEN "collectClass"
       ELSE IF ty.isClassOrInterface THEN "collectInterface"
       ELSE "skip"

\* The body of bases.forEach for one base type: the collector it calls.
calleeOfBase(o, node, task) ==
    LET ty == o.types[task.type]
    IN IF task.sym = NoSymbol THEN "skip"
       ELSE IF node.kind = "class" /\ ty.isClass
       THEN IF node.superClass = NoRef THEN "collectClass" ELSE "skip"
       ELSE IF ty.isClassOrInterface THEN "collectInterface"
       ELSE "skip"

\* The body of the implements loop for one type: the collector it calls.
calleeOfImpl(o, task) ==
    IF task.sym # NoSymbol /\ o.types[task.type].isClassOrInterface
    THEN "collectInterface"
    ELSE "skip"

-----------------------------------------------------------------------------
(* The functions the model adds to a list *)

make == << "m", "a", "k", "e" >>
bar == << "b", "a", "r" >>
bar_2 == << "b", "a", "r", "_", "2" >>
xName == << "x" >>
yName == << "y" >>
numberStr == << "n", "u", "m", "b", "e", "r" >>
stringStr == << "s", "t", "r", "i", "n", "g" >>
voidStr == << "v", "o", "i", "d" >>
docStr == << "d", "o", "c" >>

JsTypeOf(t) ==
    CASE t = Number -> numberStr
      [] t = String -> stringStr
      [] OTHER -> voidStr

ArgLists ==
    { <<>>,
      << Variable(xName, numberStr, xName, Number, FALSE) >>,
      << Variable(xName, stringStr, xName, String, FALSE),
         Variable(yName, numberStr, yName, Number, FALSE) >> }

ReturnTypes == { Number, String, Unit }

\* Overloads of make that differ in the return type only (one of them also
\* with other docs), overloads of bar of arity 0, 1 and 2, and a function
\* named bar_2.
FunctionUniverse ==
    { NamedFunction(make, make, FunctionType(<<>>, r, JsTypeOf(r)), <<>>) : r \in ReturnTypes }
    \cup { NamedFunction(make, make, FunctionType(<<>>, Number, numberStr), docStr) }
    \cup { NamedFunction(bar, bar, FunctionType(a, Unit, voidStr), <<>>) : a \in ArgLists }
    \cup { NamedFunction(bar_2, bar_2, FunctionType(<<>>, Unit, voidStr), <<>>) }

-----------------------------------------------------------------------------
(* The programs the model collects *)

aName == << "a" >>
bName == << "b" >>
mName == << "m" >>
nName == << "n" >>
pName == << "p" >>
voidDisplay == << "v", "o", "i", "d" >>

numberDisplay == << "n", "u", "m", "b", "e", "r" >>

TypeIds ==
    { "tA", "tB", "tString", "tVoid", "tNumber", "tLitX", "tLitY", "tLitZ",
      "tU3", "tU2", "tC", "tFn" }
SymbolIds == { "sA", "sB", "sC" }

Shapes == { "class", "interface", "callable" }
Heritages == { "none", "extends", "implements" }

\* The declared type of an entity: a class or an interface with one property p
\* of type ref, or an interface with the single call signature (x: ref): void;
\* the property or the parameter is optional or not.
entityType(shape, sym, display, bases, ref, opt) ==
    TsType({ "Object" }, display, sym, FALSE, <<>>,
           IF shape = "callable"
           THEN << Signature(<< Param(xName, ref, opt, FALSE) >>, "tVoid", <<>>) >>
           ELSE <<>>,
           shape = "class", TRUE, bases,
           IF shape = "callable" THEN <<>> ELSE << Member(pName, ref, TRUE, opt, << Declaration(FALSE, <<>>) >>) >>)

\* The symbol of an entity; a class has the construct signature new(): itself.
entitySymbol(shape, name, fqn, type, inEntryFile, implements) ==
    TsSymbol(name, fqn, type, inEntryFile, FALSE, implements,
             IF shape = "class" THEN << Signature(<<>>, type, <<>>) >> ELSE <<>>,
             <<>>)

primitiveType(flag, display) ==
    TsType({ flag }, display, NoSymbol, FALSE, <<>>, <<>>, FALSE, FALSE, <<>>, <<>>)

\* A union type: isUnion() holds and types lists its branches.
unionType(display, types) ==
    TsType({ "Union" }, display, NoSymbol, TRUE, types, <<>>, FALSE, FALSE, <<>>, <<>>)

\* A symbol no type and no export of a program refers to.
unusedSymbol ==
    TsSymbol(<< "c" >>, << mName, << "c" >> >>, "tVoid", FALSE, FALSE, <<>>, <<>>, <<>>)

\* Two entities: a, exported by the entry module "m", and b, exported by the
\* module "n".  Each is a class, an interface or a callable interface, may
\* extend or implement the other, and refers to a type (itself, the other one,
\* or string; a also to the union "x" | "y" | "z" or string | number, and its
\* property or parameter may be optional).  "n" is an entry file or not.  The
\* exports name a twice.
\* A class extends a class only, only a class has an implements clause, and
\* at most one of the two has a heritage clause.
program(c) ==
    [types |->
        [t \in TypeIds |->
            CASE t = "tA" -> entityType(c.shapeA, "sA", aName,
                                        IF c.herA = "extends" THEN << "tB" >> ELSE <<>>,
                                        c.refA, c.optA)
              [] t = "tB" -> entityType(c.shapeB, "sB", bName,
                                        IF c.herB = "extends" THEN << "tA" >> ELSE <<>>,
                                        c.refB, FALSE)
              [] t = "tString" -> primitiveType("String", stringStr)
              [] t = "tNumber" -> primitiveType("Number", numberDisplay)
              [] t = "tLitX" -> primitiveType("StringLiteral", << "x" >>)
              [] t = "tLitY" -> primitiveType("StringLiteral", << "y" >>)
              [] t = "tLitZ" -> primitiveType("StringLiteral", << "z" >>)
              [] t = "tU3" -> unionType(<< "u", "3" >>, << "tLitX", "tLitY", "tLitZ" >>)
              [] t = "tU2" -> unionType(<< "u", "2" >>, << "tString", "tNumber" >>)
              [] OTHER -> primitiveType("Void", voidDisplay)],
     symbols |->
        [s \in SymbolIds |->
            IF s = "sA"
            THEN entitySymbol(c.shapeA, aName, << mName, aName >>, "tA", TRUE,
                              IF c.herA = "implements" THEN << "tB" >> ELSE <<>>)
            ELSE IF s = "sB"
            THEN entitySymbol(c.shapeB, bName, << nName, bName >>, "tB", c.entryB,
                              IF c.herB = "implements" THEN << "tA" >> ELSE <<>>)
            ELSE unusedSymbol],
     exports |-> << "sA" >> \o (IF c.entryB THEN << "sB" >> ELSE <<>>) \o << "sA" >>]

Choices ==
    { c \in [shapeA : Shapes, herA : Heritages,
             refA : { "tA", "tB", "tString", "tU3", "tU2" }, optA : BOOLEAN,
             shapeB : Shapes, herB : Heritages, refB : { "tA", "tB", "tString" },
             entryB : BOOLEAN] :
        /\ c.herA = "implements" => c.shapeA = "class"
        /\ c.herB = "implements" => c.shapeB = "class"
        /\ (c.herA = "extends" /\ c.shapeA = "class") => c.shapeB = "class"
        /\ (c.herB = "extends" /\ c.shapeB = "class") => c.shapeA = "class"
        /\ c.herA = "none" \/ c.herB = "none" }

cName == << "c" >>
qName == << "q" >>
zName == << "z" >>

\* The declarations of a member: none, one without modifiers, one that is
\* public, private, protected or private static, and a public one followed
\* by a private one.
DeclarationLists ==
    { <<>>,
      << Declaration(FALSE, <<>>) >>,
      << Declaration(TRUE, << "PublicKeyword" >>) >>,
      << Declaration(TRUE, << "PrivateKeyword" >>) >>,
      << Declaration(TRUE, << "ProtectedKeyword" >>) >>,
      << Declaration(TRUE, << "StaticKeyword", "PrivateKeyword" >>) >>,
      << Declaration(TRUE, << "PublicKeyword" >>), Declaration(TRUE, << "PrivateKeyword" >>) >> }

\* The call signatures of the type of the member q: q(x: string, y: number,
\* ...z: string): void with the overload q(x: string, y: number): void
\* ("rest") or q(x: string): void ("arity"), or q(...z: string): void alone.
overloadSignatures(overloads) ==
    LET x == Param(xName, "tString", FALSE, FALSE)
        y == Param(yName, "tNumber", FALSE, FALSE)
        z == Param(zName, "tString", FALSE, TRUE)
    IN CASE overloads = "rest" ->
              << Signature(<< x, y, z >>, "tVoid", <<>>), Signature(<< x, y >>, "tVoid", <<>>) >>
         [] overloads = "arity" ->
              << Signature(<< x, y, z >>, "tVoid", <<>>), Signature(<< x >>, "tVoid", <<>>) >>
         [] OTHER -> << Signature(<< z >>, "tVoid", <<>>) >>

\* The class a of the entry module "m" with the base types b and c, each a
\* class or an interface of "m", in either order.  The members of a are the
\* property p: string and q, whose type has the call signatures of
\* overloadSignatures and which is flagged as a property or not; each has one
\* of the declaration lists.  The exports name a.
heritageProgram(h) ==
    [types |->
        [t \in TypeIds |->
            CASE t = "tA" ->
                    TsType({ "Object" }, aName, "sA", FALSE, <<>>, <<>>, TRUE, TRUE,
                           IF h.first = "tB" THEN << "tB", "tC" >> ELSE << "tC", "tB" >>,
                           << Member(pName, "tString", TRUE, FALSE, h.declP),
                              Member(qName, "tFn", h.propQ, FALSE, h.declQ) >>)
              [] t = "tB" -> entityType(h.kindB, "sB", bName, <<>>, "tString", FALSE)
              [] t = "tC" -> entityType(h.kindC, "sC", cName, <<>>, "tString", FALSE)
              [] t = "tFn" ->
                    TsType({ "Object" }, << "q" >>, NoSymbol, FALSE, <<>>,
                           overloadSignatures(h.overloads), FALSE, FALSE, <<>>, <<>>)
              [] t = "tString" -> primitiveType("String", stringStr)
              [] t = "tNumber" -> primitiveType("Number", numberDisplay)
              [] t = "tLitX" -> primitiveType("StringLiteral", << "x" >>)
              [] t = "tLitY" -> primitiveType("StringLiteral", << "y" >>)
              [] t = "tLitZ" -> primitiveType("StringLiteral", << "z" >>)
              [] t = "tU3" -> unionType(<< "u", "3" >>, << "tLitX", "tLitY", "tLitZ" >>)
              [] t = "tU2" -> unionType(<< "u", "2" >>, << "tString", "tNumber" >>)
              [] OTHER -> primitiveType("Void", voidDisplay)],
     symbols |->
        [s \in SymbolIds |->
            IF s = "sA" THEN entitySymbol("class", aName, << mName, aName >>, "tA", TRUE, <<>>)
            ELSE IF s = "sB"
            THEN entitySymbol(h.kindB, bName, << mName, bName >>, "tB", TRUE, <<>>)
            ELSE entitySymbol(h.kindC, cName, << mName, cName >>, "tC", TRUE, <<>>)],
     exports |-> << "sA" >>]

HeritageChoices ==
    [kindB : { "class", "interface" }, kindC : { "class", "interface" },
     first : { "tB", "tC" }, declP : DeclarationLists,
     declQ : { << Declaration(FALSE, <<>>) >>, << Declaration(TRUE, << "PrivateKeyword" >>) >> },
     propQ : BOOLEAN, overloads : { "rest", "arity", "single" }]

Programs == { program(c) : c \in Choices } \cup { heritageProgram(h) : h \in HeritageChoices }

NoProgram == [types |-> <<>>, symbols |-> <<>>, exports |-> <<>>]

-----------------------------------------------------------------------------
(* State *)

VARIABLES
    list,       \* a ListOfFunctions
    lastOp,     \* the last call made on list
    lastArg,    \* the argument of the last add
    returned,   \* the value the last query returned
    lastRounds, \* rounds of the resolution loop in the last query
    hung,       \* a query is still looping
    invalidated, \* an add has dropped a cached result
    oracle,           \* the program the checker answers for
    driverPos,        \* the next export collectProgram passes to collectSymbol
    stack,            \* the call stack of the Collector
    ret,              \* the value the last call returned
    collectedTypes,   \* Collector.collectedTypes
    collectedSymbols, \* Collector.collectedSymbols
    namespaces,       \* the namespaces of the tree, each by its path from the root
    nodes,            \* the ClassType and InterfaceType nodes, in creation order
    closures,         \* Collector.closures
    overflow,         \* the recursion has exhausted the call stack
    seen,             \* the values every collectType(t) and collectSymbol(s) has
                      \* returned, and the values every symbol was resolved to
    input,            \* the arguments of a call of a function of data.ts or util.ts
    output,           \* what that call has returned, <<>> before it
    tree              \* a Namespace tree built through getOrCreate...

vars == << list, lastOp, lastArg, returned, lastRounds, hung, invalidated,
           oracle, driverPos, stack, ret, collectedTypes, collectedSymbols,
           namespaces, nodes, closures, overflow, seen, input, output, tree >>

callVars == << input, output, tree >>

\* No call is being followed and no tree is being built.
CallIdle ==
    /\ input = <<>>
    /\ output = <<>>
    /\ tree = <<>>

listVars == << list, lastOp, lastArg, returned, lastRounds, hung, invalidated >>

collectorVars == << oracle, driverPos, stack, ret, collectedTypes, collectedSymbols,
                    namespaces, nodes, closures, overflow, seen >>

NoFunction == NamedFunction(<<>>, <<>>, FunctionType(<<>>, Unit, <<>>), <<>>)

Init ==
    /\ list = NewListOfFunctions
    /\ lastOp = "new"
    /\ lastArg = NoFunction
    /\ returned = <<>>
    /\ lastRounds = 0
    /\ hung = FALSE
    /\ invalidated = FALSE
    /\ oracle = NoProgram
    /\ driverPos = 1
    /\ stack = <<>>
    /\ ret = Unknown
    /\ collectedTypes = <<>>
    /\ collectedSymbols = <<>>
    /\ namespaces = { <<>> }
    /\ nodes = <<>>
    /\ closures = <<>>
    /\ overflow = FALSE
    /\ seen = <<>>
    /\ CallIdle

HasCache(l) ==
    \/ l.cachedResolvedFunctions.defined
    \/ l.cachedUnresolvedNameMap.defined
    \/ l.cachedResolvedNameMap.defined

Add(f) ==
    /\ UNCHANGED << collectorVars, callVars >>
    /\ ~hung
    /\ \/ Len(list.functions) < MaxFuncs
       \/ \E i \in 1..Len(list.functions) : NamedFunctionIsSameAs(f, list.functions[i])
    /\ list' = add(list, f)
    /\ lastOp' = "add"
    /\ lastArg' = f
    /\ returned' = <<>>
    /\ lastRounds' = 0
    /\ invalidated' = (invalidated \/ (list' # list /\ HasCache(list)))
    /\ UNCHANGED hung

\* The call has come to r: the list it leaves and the value it returns.  A
\* call whose loop does not end leaves the sorted list and returns nothing.
Outcome(r) ==
    /\ hung' = ~r.done
    /\ list' = IF r.done THEN r.list ELSE [list EXCEPT !.functions = r.list.functions]
    /\ returned' = IF r.done THEN r.ret ELSE <<>>
    /\ lastRounds' = r.rounds

GetResolvedFunctions ==
    /\ UNCHANGED << collectorVars, callVars >>
    /\ ~hung
    /\ Outcome(getResolvedFunctions(list))
    /\ lastOp' = "getResolvedFunctions"
    /\ lastArg' = NoFunction
    /\ UNCHANGED invalidated

GetUnresolvedNameMap ==
    /\ UNCHANGED << collectorVars, callVars >>
    /\ ~hung
    /\ LET r == getUnresolvedNameMap(list)
       IN /\ list' = r.list
          /\ returned' = r.ret
    /\ lastOp' = "getUnresolvedNameMap"
    /\ lastArg' = NoFunction
    /\ lastRounds' = 0
    /\ UNCHANGED << hung, invalidated >>

GetResolvedNameMap ==
    /\ UNCHANGED << collectorVars, callVars >>
    /\ ~hung
    /\ Outcome(getResolvedNameMap(list))
    /\ lastOp' = "getResolvedNameMap"
    /\ lastArg' = NoFunction
    /\ UNCHANGED invalidated

Next ==
    \/ \E f \in FunctionUniverse : Add(f)
    \/ GetResolvedFunctions
    \/ GetUnresolvedNameMap
    \/ GetResolvedNameMap

Spec == Init /\ [][Next]_vars

-----------------------------------------------------------------------------
(* Collector: state machine of one collection pass *)

\* A frame of the call stack.  phase is "enter" (called, nothing done yet),
\* "run" (between two calls) or "wait" (in a call).  tasks are the calls still
\* to make, val and list the locals, node the index of the node being filled.
Frame(proc, sym, type, sig) ==
    [proc |-> proc, sym |-> sym, type |-> type, sig |-> sig, phase |-> "enter",
     tasks |-> <<>>, val |-> Unknown, list |-> <<>>, node |-> 0]

\* What the pass has returned so far: per type and per symbol the values
\* returned for it, and the nodes for which collectMembers has returned.
NoSeen == [types |-> [t \in TypeIds |-> {}], symbols |-> [s \in SymbolIds |-> {}],
           reprs |-> [s \in SymbolIds |-> {}], membersDone |-> <<>>]

CollectorInit ==
    /\ driverPos = 1
    /\ stack = <<>>
    /\ ret = Unknown
    /\ collectedTypes = [t \in TypeIds |-> NotCached]
    /\ collectedSymbols = [s \in SymbolIds |-> NotCached]
    /\ namespaces = { <<>> }
    /\ nodes = <<>>
    /\ closures = <<>>
    /\ overflow = FALSE
    /\ seen = NoSeen

ListIdle ==
    /\ list = NewListOfFunctions
    /\ lastOp = "new"
    /\ lastArg = NoFunction
    /\ returned = <<>>
    /\ lastRounds = 0
    /\ hung = FALSE
    /\ invalidated = FALSE

InitCollect ==
    /\ oracle \in Programs
    /\ CollectorInit
    /\ ListIdle
    /\ CallIdle

Top == stack[Len(stack)]
Popped == SubSeq(stack, 1, Len(stack) - 1)
WithTop(f) == [stack EXCEPT ![Len(stack)] = f]
Running == stack # <<>> /\ ~overflow

\* Mutant of NodeIndex: no registered node is ever found.
NodeIndexNeverFound(kind, ns, name) == 0

\* The index of the node of a kind registered under a name in a namespace, or 0.
NodeIndex(kind, ns, name) ==
    IF \E k \in 1..Len(nodes) :
          nodes[k].kind = kind /\ nodes[k].namespace = ns /\ nodes[k].rustName = name
    THEN CHOOSE k \in 1..Len(nodes) :
          nodes[k].kind = kind /\ nodes[k].namespace = ns /\ nodes[k].rustName = name
    ELSE 0

\* The symbol a returned value stands for, where the call was made for one.
SeenRepr(sym, v) ==
    IF sym = NoSymbol THEN seen.reprs
    ELSE [seen.reprs EXCEPT ![sym] = @ \cup { v }]

\* collectProgram: collector.collectSymbol(e) for the next exported symbol.
Driver ==
    /\ UNCHANGED << listVars, callVars >>
    /\ ~overflow
    /\ stack = <<>>
    /\ driverPos <= Len(oracle.exports)
    /\ stack' = << Frame("collectSymbol", oracle.exports[driverPos], NoType, NoSignature) >>
    /\ driverPos' = driverPos + 1
    /\ UNCHANGED << oracle, ret, collectedTypes, collectedSymbols, namespaces, nodes,
                    closures, overflow, seen >>

\* collectSymbol up to its first call: the cached result, or the resolution
\* of the declared type of the symbol.
EnterCollectSymbol ==
    /\ UNCHANGED << listVars, callVars >>
    /\ Running
    /\ Top.proc = "collectSymbol" /\ Top.phase = "enter"
    /\ IF collectedSymbols[Top.sym].defined
       THEN /\ stack' = Popped
            /\ ret' = collectedSymbols[Top.sym].value
            /\ seen' = [seen EXCEPT !.symbols[Top.sym] = @ \cup { collectedSymbols[Top.sym].value },
                                    !.reprs = SeenRepr(Top.sym, collectedSymbols[Top.sym].value)]
       ELSE /\ stack' = WithTop([Top EXCEPT
                           !.phase = "run",
                           !.type = oracle.symbols[Top.sym].declaredType,
                           !.tasks = << collectSymbolAndTypeTask(oracle, Top.sym,
                                            oracle.symbols[Top.sym].declaredType) >>])
            /\ UNCHANGED << ret, seen >>
    /\ UNCHANGED << oracle, driverPos, collectedTypes, collectedSymbols, namespaces, nodes,
                    closures, overflow >>

\* collectType up to its first call: the cached result, or
\* collectTypeWithoutStoring.
EnterCollectType ==
    /\ UNCHANGED << listVars, callVars >>
    /\ Running
    /\ Top.proc = "collectType" /\ Top.phase = "enter"
    /\ IF collectedTypes[Top.type].defined
       THEN /\ stack' = Popped
            /\ ret' = collectedTypes[Top.type].value
            /\ seen' = [seen EXCEPT !.types[Top.type] = @ \cup { collectedTypes[Top.type].value },
                                    !.reprs = SeenRepr(oracle.types[Top.type].symbol,
                                                       collectedTypes[Top.type].value)]
       ELSE /\ stack' = WithTop([Top EXCEPT
                           !.phase = "run",
                           !.sym = collectTypeTasks(oracle, Top.type)[1].sym,
                           !.tasks = collectTypeTasks(oracle, Top.type)])
            /\ UNCHANGED << ret, seen >>
    /\ UNCHANGED << oracle, driverPos, collectedTypes, collectedSymbols, namespaces, nodes,
                    closures, overflow >>

\* collectSignature up to its first call.
EnterCollectSignature ==
    /\ UNCHANGED << listVars, callVars >>
    /\ Running
    /\ Top.proc = "collectSignature" /\ Top.phase = "enter"
    /\ stack' = WithTop([Top EXCEPT !.phase = "run", !.tasks = collectSignatureTasks(Top.sig)])
    /\ UNCHANGED << oracle, driverPos, ret, collectedTypes, collectedSymbols, namespaces,
                    nodes, closures, overflow, seen >>

\* collectClass (kind "class") and collectInterface (kind "interface") up to
\* the first call: the enclosing namespaces are created, a node registered
\* under the name is returned, otherwise the node is created and registered.
EnterCollectNode(kind) ==
    /\ LET sy == oracle.symbols[Top.sym]
           where == collectSymbolEnclosingNamespaces(sy)
           existing == NodeIndex(kind, where.ns, where.name)
           created == NewNode(kind, sy.name, where.ns, sy.docs, Top.sym)
           registered == NodeIndex(kind, where.ns, created.rustName)
       IN /\ namespaces' = namespaces \cup where.visited
          /\ IF existing # 0
             THEN /\ stack' = Popped
                  /\ ret' = RefOf(nodes[existing])
                  /\ seen' = [seen EXCEPT !.reprs = SeenRepr(Top.sym, RefOf(nodes[existing]))]
                  /\ UNCHANGED nodes
             ELSE /\ nodes' = IF registered # 0 THEN nodes ELSE Append(nodes, created)
                  /\ stack' = WithTop([Top EXCEPT
                                 !.phase = "run",
                                 !.node = IF registered # 0 THEN registered ELSE Len(nodes) + 1,
                                 !.tasks = IF kind = "class"
                                           THEN collectClassTasks(oracle, Top.sym, Top.type)
                                           ELSE collectInterfaceTasks(oracle, Top.sym, Top.type)])
                  /\ UNCHANGED << ret, seen >>
    /\ UNCHANGED << oracle, driverPos, collectedTypes, collectedSymbols, closures, overflow >>

EnterCollectClass ==
    /\ UNCHANGED << listVars, callVars >>
    /\ Running
    /\ Top.proc = "collectClass" /\ Top.phase = "enter"
    /\ EnterCollectNode("class")

EnterCollectInterface ==
    /\ UNCHANGED << listVars, callVars >>
    /\ Running
    /\ Top.proc = "collectInterface" /\ Top.phase = "enter"
    /\ EnterCollectNode("interface")

\* The collector the next task of the top frame calls, or "skip" / "value".
Callee(task) ==
    CASE task.kind \in { "branch", "ret", "param", "prop" } -> "collectType"
      [] task.kind \in { "closure", "ctor", "method" } -> "collectSignature"
      [] task.kind = "class" -> "collectClass"
      [] task.kind = "interface" -> "collectInterface"
      [] task.kind = "base" -> calleeOfBase(oracle, nodes[Top.node], task)
      [] task.kind = "impl" -> calleeOfImpl(oracle, task)
      [] OTHER -> "value"

\* The next call of the top frame.
Call ==
    /\ UNCHANGED << listVars, callVars >>
    /\ Running
    /\ Top.phase = "run" /\ Top.tasks # <<>>
    /\ Callee(Head(Top.tasks)) \notin { "skip", "value" }
    /\ Len(stack) < MaxDepth
    /\ stack' = Append(WithTop([Top EXCEPT !.phase = "wait"]),
                       Frame(Callee(Head(Top.tasks)), Head(Top.tasks).sym,
                             Head(Top.tasks).type, Head(Top.tasks).sig))
    /\ UNCHANGED << oracle, driverPos, ret, collectedTypes, collectedSymbols, namespaces,
                    nodes, closures, overflow, seen >>

\* The recursion is deeper than the call stack: the pass ends with a RangeError.
StackOverflow ==
    /\ UNCHANGED << listVars, callVars >>
    /\ Running
    /\ Top.phase = "run" /\ Top.tasks # <<>>
    /\ Callee(Head(Top.tasks)) \notin { "skip", "value" }
    /\ Len(stack) >= MaxDepth
    /\ overflow' = TRUE
    /\ UNCHANGED << oracle, driverPos, stack, ret, collectedTypes, collectedSymbols,
                    namespaces, nodes, closures, seen >>

\* A step of the top frame that calls no collector: a result that needs no
\* call, or a base type or implements clause that is passed over.
NoCall ==
    /\ UNCHANGED << listVars, callVars >>
    /\ Running
    /\ Top.phase = "run" /\ Top.tasks # <<>>
    /\ Callee(Head(Top.tasks)) \in { "skip", "value" }
    /\ stack' = WithTop([Top EXCEPT
                    !.tasks = Tail(@),
                    !.val = IF Callee(Head(Top.tasks)) = "value"
                            THEN wrapIfOptionalSymbol(oracle, Head(Top.tasks).sym,
                                                      Head(Top.tasks).value)
                            ELSE @])
    /\ UNCHANGED << oracle, driverPos, ret, collectedTypes, collectedSymbols, namespaces,
                    nodes, closures, overflow, seen >>

\* Mutant of paramVariables: a rest parameter is kept.
paramVariablesKeepsRest(o, task, rustType) ==
    << Variable(task.member.name, o.types[task.type].display,
                escapeRustName(task.member.name),
                IF task.member.isOptional THEN Optional(rustType) ELSE rustType,
                task.member.isOptional) >>

\* The Variable collectSignature pushes for a parameter (none for a rest one).
paramVariables(o, task, rustType) ==
    IF task.member.hasDotDotDot THEN <<>>
    ELSE << Variable(task.member.name, o.types[task.type].display,
                     escapeRustName(task.member.name),
                     IF task.member.isOptional THEN Optional(rustType) ELSE rustType,
                     task.member.isOptional) >>

\* The Variable collectMembers pushes for a property.
propertyVariable(o, task, memRustType) ==
    Variable(task.member.name, o.types[task.type].display, escapeRustName(task.member.name),
             IF task.member.isOptional THEN Optional(memRustType) ELSE memRustType,
             task.member.isOptional)

\* The node after the call of a task has returned v.
nodeAfter(o, node, task, v) ==
    CASE task.kind = "base" /\ v.kind = "class" /\ node.kind = "class" /\ o.types[task.type].isClass ->
            [node EXCEPT !.superClass = v]
      [] task.kind = "base" /\ ~(node.kind = "class" /\ o.types[task.type].isClass) ->
            pushDirectImpl(node, v)
      [] task.kind = "impl" -> pushDirectImpl(node, v)
      [] task.kind = "ctor" ->
            [node EXCEPT !.constructors =
                add(@, NamedFunction(<< "n", "e", "w" >>, << "n", "e", "w" >>, v, task.sig.docs))]
      [] task.kind = "method" ->
            [node EXCEPT !.methods =
                add(@, NamedFunction(escapeRustName(task.member.name), task.member.name, v,
                                     task.sig.docs))]
      [] task.kind = "prop" ->
            [node EXCEPT !.properties = Append(@, propertyVariable(o, task, v))]
      [] OTHER -> node

\* The top frame goes on after the call it made has returned ret.
Resume ==
    /\ UNCHANGED << listVars, callVars >>
    /\ Running
    /\ Top.phase = "wait"
    /\ LET task == Head(Top.tasks)
           closed == collectClosure(closures, ret)
       IN /\ closures' = IF task.kind = "closure" THEN closed.closures ELSE closures
          /\ nodes' = IF Top.node # 0
                      THEN [nodes EXCEPT ![Top.node] = nodeAfter(oracle, @, task, ret)]
                      ELSE nodes
          /\ stack' = WithTop([Top EXCEPT
                         !.phase = "run",
                         !.tasks = Tail(@),
                         !.val = CASE task.kind = "closure" ->
                                        wrapIfOptionalSymbol(oracle, task.sym, closed.value)
                                   [] task.kind \in { "class", "interface" } ->
                                        wrapIfOptionalSymbol(oracle, task.sym, ret)
                                   [] task.kind = "ret" -> ret
                                   [] OTHER -> @,
                         !.list = CASE task.kind = "branch" -> Append(@, ret)
                                    [] task.kind = "param" -> @ \o paramVariables(oracle, task, ret)
                                    [] OTHER -> @])
    /\ UNCHANGED << oracle, driverPos, ret, collectedTypes, collectedSymbols, namespaces,
                    overflow, seen >>

\* The value the top frame returns when it has made all its calls.
Result ==
    CASE Top.proc = "collectType" /\ oracle.types[Top.type].isUnion -> unionResult(Top.list)
      [] Top.proc = "collectSignature" ->
            FunctionType(Top.list, Top.val, oracle.types[Top.sig.returnType].display)
      [] Top.proc \in { "collectClass", "collectInterface" } -> RefOf(nodes[Top.node])
      [] OTHER -> Top.val

\* The top frame returns: collectSymbol and collectType store the result first.
Return ==
    /\ UNCHANGED << listVars, callVars >>
    /\ Running
    /\ Top.phase = "run" /\ Top.tasks = <<>>
    /\ stack' = Popped
    /\ ret' = Result
    /\ collectedSymbols' = IF Top.proc = "collectSymbol"
                           THEN [collectedSymbols EXCEPT ![Top.sym] = Cached(Result)]
                           ELSE collectedSymbols
    /\ collectedTypes' = IF Top.proc = "collectType"
                         THEN [collectedTypes EXCEPT ![Top.type] = Cached(Result)]
                         ELSE collectedTypes
    /\ seen' = CASE Top.proc = "collectSymbol" ->
                      [seen EXCEPT !.symbols[Top.sym] = @ \cup { Result },
                                   !.reprs = SeenRepr(Top.sym, Result)]
                 [] Top.proc = "collectType" ->
                      [seen EXCEPT !.types[Top.type] = @ \cup { Result },
                                   !.reprs = SeenRepr(oracle.types[Top.type].symbol, Result)]
                 [] Top.proc \in { "collectClass", "collectInterface" } ->
                      [seen EXCEPT !.reprs = SeenRepr(Top.sym, Result),
                                   !.membersDone = Append(@, Top.node)]
                 [] OTHER -> seen
    /\ UNCHANGED << oracle, driverPos, namespaces, nodes, closures, overflow >>

NextCollect ==
    \/ Driver
    \/ EnterCollectSymbol
    \/ EnterCollectType
    \/ EnterCollectSignature
    \/ EnterCollectClass
    \/ EnterCollectInterface
    \/ Call
    \/ NoCall
    \/ Resume
    \/ Return
    \/ StackOverflow

SpecCollect == InitCollect /\ [][NextCollect]_vars

-----------------------------------------------------------------------------
(* Comparators (data.ts): calls on values of the type model *)

\* Deepest nesting of Optional in the types that are compared.
MaxOptionalDepth == 2

RECURSIVE NestedOptional(_, _)
\* t wrapped depth times in Optional
NestedOptional(t, depth) ==
    IF depth = 0 THEN t ELSE Optional(NestedOptional(t, depth - 1))

Primitives == { Any, Unknown, Number, String, Bool, Symbol, Undefined, Null, Unit, Never }

\* Classes and interfaces of the names a and b, in the root namespace and in
\* the namespace n.
NodeRefUniverse ==
    { NodeRef("class", <<>>, aName), NodeRef("class", <<>>, bName),
      NodeRef("class", << nName >>, aName),
      NodeRef("interface", <<>>, aName), NodeRef("interface", << nName >>, aName) }

\* Signatures of arity 0 to 2; two of them differ in returnJsType only.
FunctionTypeUniverse ==
    { FunctionType(<<>>, Number, numberStr),
      FunctionType(<<>>, Number, stringStr),
      FunctionType(<<>>, Unit, voidStr),
      FunctionType(<< Variable(xName, numberStr, xName, Number, FALSE) >>, Unit, voidStr),
      FunctionType(<< Variable(yName, numberStr, yName, Number, FALSE) >>, Unit, voidStr),
      FunctionType(<< Variable(xName, stringStr, xName, String, FALSE),
                      Variable(yName, numberStr, yName, Number, FALSE) >>, Unit, voidStr) }

TypeUniverse ==
    Primitives
    \cup { NestedOptional(Number, d) : d \in 1..MaxOptionalDepth }
    \cup { Optional(String) }
    \cup NodeRefUniverse
    \cup FunctionTypeUniverse

\* Variables named x or y; two of them differ in jsName and jsType only.
VariableUniverse ==
    { Variable(n, numberStr, n, t, FALSE) :
        n \in { xName, yName },
        t \in { Number, String, Optional(Number), NodeRef("class", <<>>, aName) } }
    \cup { Variable(yName, stringStr, xName, Number, TRUE) }

\* The calls a.cmp(b), ... among three values a, b and c.
Pairs == { "aa", "ab", "ba", "bc", "cb", "ac", "ca" }

Left(p) == IF p \in { "aa", "ab", "ac" } THEN "a" ELSE IF p \in { "ba", "bc" } THEN "b" ELSE "c"
Right(p) == IF p \in { "aa", "ba", "ca" } THEN "a" ELSE IF p \in { "ab", "cb" } THEN "b" ELSE "c"

Triples(fn, universe) == { [fn |-> fn, a |-> a, b |-> b, c |-> c] : a, b, c \in universe }

InitCmp ==
    /\ input \in Triples("cmpTypes", TypeUniverse)
                 \cup Triples("Variable.cmp", VariableUniverse)
                 \cup Triples("FunctionType.cmp", FunctionTypeUniverse)
                 \cup Triples("NamedFunction.cmp", FunctionUniverse)
    /\ output = <<>>
    /\ tree = <<>>
    /\ ListIdle
    /\ oracle = NoProgram
    /\ CollectorInit

\* Nothing but the call changes.
CallFrame == UNCHANGED << listVars, collectorVars, input, tree >>

\* cmpTypes on every pair, and typesAreSame(a, b)
CallCmpTypes ==
    /\ input.fn = "cmpTypes" /\ output = <<>>
    /\ output' = [cmp |-> [p \in Pairs |-> cmpTypes(input[Left(p)], input[Right(p)])],
                  same |-> typesAreSame(input.a, input.b)]
    /\ CallFrame

\* Variable.cmp on every pair, and a.isSameAs(b)
CallVariableCmp ==
    /\ input.fn = "Variable.cmp" /\ output = <<>>
    /\ output' = [cmp |-> [p \in Pairs |-> VariableCmp(input[Left(p)], input[Right(p)])],
                  same |-> (VariableCmp(input.a, input.b) = 0)]
    /\ CallFrame

\* FunctionType.cmp on every pair, and a.isSameAs(b)
CallFunctionTypeCmp ==
    /\ input.fn = "FunctionType.cmp" /\ output = <<>>
    /\ output' = [cmp |-> [p \in Pairs |-> FunctionTypeCmp(input[Left(p)], input[Right(p)])],
                  same |-> (FunctionTypeCmp(input.a, input.b) = 0)]
    /\ CallFrame

\* NamedFunction.cmp on every pair, a.isSameAs(b), and [a, b, c] sorted by cmp
CallNamedFunctionCmp ==
    /\ input.fn = "NamedFunction.cmp" /\ output = <<>>
    /\ output' = [cmp |-> [p \in Pairs |-> NamedFunctionCmp(input[Left(p)], input[Right(p)])],
                  same |-> NamedFunctionIsSameAs(input.a, input.b),
                  sorted |-> SortFunctions(<< input.a, input.b, input.c >>)]
    /\ CallFrame

NextCmp ==
    \/ CallCmpTypes
    \/ CallVariableCmp
    \/ CallFunctionTypeCmp
    \/ CallNamedFunctionCmp

SpecCmp == InitCmp /\ [][NextCmp]_vars

-----------------------------------------------------------------------------
(* numToAbc (util.ts): calls on the non-negative integers *)

\* Largest number numToAbc is called with (676 is the first of three letters).
MaxAbc == 680

InitAbc ==
    /\ input \in { [fn |-> "numToAbc", num |-> n] : n \in 0..MaxAbc }
    /\ output = <<>>
    /\ tree = <<>>
    /\ ListIdle
    /\ oracle = NoProgram
    /\ CollectorInit

CallNumToAbc ==
    /\ input.fn = "numToAbc" /\ output = <<>>
    /\ output' = numToAbc(input.num)
    /\ CallFrame

NextAbc == CallNumToAbc

SpecAbc == InitAbc /\ [][NextAbc]_vars

\* The elements of a sequence.
Range(seq) == { seq[i] : i \in 1..Len(seq) }

-----------------------------------------------------------------------------
(* The closure registry (collect.ts) and the synthetic names (data.ts) *)

\* Largest number of collectClosure calls the model follows.
MaxClosureCalls == 4

RECURSIVE getTypeShortName(_)
\* getTypeShortName
getTypeShortName(t) ==
    CASE t.kind = "any" -> << "A", "n", "y" >>
      [] t.kind = "unknown" -> << "U", "n", "k", "n", "o", "w", "n" >>
      [] t.kind = "number" -> << "N", "u", "m", "b", "e", "r" >>
      [] t.kind = "string" -> << "S", "t", "r", "i", "n", "g" >>
      [] t.kind = "bool" -> << "B", "o", "o", "l" >>
      [] t.kind = "symbol" -> << "S", "y", "m", "b", "o", "l" >>
      [] t.kind = "undefined" -> << "U", "n", "d", "e", "f", "i", "n", "e", "d" >>
      [] t.kind = "null" -> << "N", "u", "l", "l" >>
      [] t.kind = "void" -> << "V", "o", "i", "d" >>
      [] t.kind = "never" -> << "N", "e", "v", "e", "r" >>
      [] t.kind = "optional" ->
            << "O", "p", "t", "i", "o", "n", "a", "l" >> \o getTypeShortName(t.subtype)
      [] t.kind = "class" -> t.rustName
      [] t.kind = "interface" -> t.rustName
      [] t.kind = "function" -> << "F", "n" >> \o NumToString(Len(t.args))

RECURSIVE ArgShortNames(_, _)
\* the forEach of underscoreEscapeSignature, from argument i
ArgShortNames(args, i) ==
    IF i > Len(args) THEN <<>>
    ELSE (IF i > 1 THEN << "_" >> ELSE <<>>)
         \o getTypeShortName(args[i].type) \o ArgShortNames(args, i + 1)

\* FunctionType.underscoreEscapeSignature
underscoreEscapeSignature(f, base) ==
    (IF Len(f.args) > 0
     THEN base \o (IF Len(base) > 0 THEN << "_", "_" >> ELSE <<>>)
               \o ArgShortNames(f.args, 1)
     ELSE base)
    \o << "_", "_" >> \o getTypeShortName(f.returnType)

\* The bases the emitter names closures with, and the empty base.
JsFn == << "J", "s", "F", "n" >>
JsCallable == << "J", "s", "C", "a", "l", "l", "a", "b", "l", "e" >>
SyntheticBases == { JsFn, JsCallable, <<>> }

\* The signatures collectClosure is called with: those of the comparators,
\* callbacks on the class a of the root and of the namespace n, a callback
\* on an optional number and one that takes a callback.
ClosureUniverse ==
    FunctionTypeUniverse
    \cup { FunctionType(<< Variable(xName, aName, xName, NodeRef("class", ns, aName), FALSE) >>,
                        Unit, voidStr) : ns \in { <<>>, << nName >> } }
    \cup { FunctionType(<< Variable(xName, numberStr, xName, Optional(Number), TRUE) >>,
                        Number, numberStr),
           FunctionType(<< Variable(xName, voidStr, xName,
                                    FunctionType(<<>>, Unit, voidStr), FALSE) >>,
                        Unit, voidStr) }

InitClosures ==
    /\ input = <<>>
    /\ output = [before |-> <<>>, calls |-> 0]
    /\ tree = <<>>
    /\ ListIdle
    /\ oracle = NoProgram
    /\ CollectorInit

\* One call of collectClosure(signature); output keeps the registry the call
\* found.
CollectClosure ==
    /\ output.calls < MaxClosureCalls
    /\ \E signature \in ClosureUniverse :
         /\ input' = [fn |-> "collectClosure", signature |-> signature]
         /\ closures' = collectClosure(closures, signature).closures
         /\ ret' = collectClosure(closures, signature).value
    /\ output' = [before |-> closures, calls |-> output.calls + 1]
    /\ UNCHANGED << listVars, oracle, driverPos, stack, collectedTypes,
                    collectedSymbols, namespaces, nodes, overflow, seen, tree >>

NextClosures == CollectClosure

SpecClosures == InitClosures /\ [][NextClosures]_vars

-----------------------------------------------------------------------------
(* forEachSuperClass / forEachSuperImpl (data.ts): calls on a class graph *)

\* The interfaces A, B, C, D and the classes K, L of the graphs.
Interfaces == { "A", "B", "C", "D" }
Classes == { "K", "L" }
NoClass == "none"

\* The sequences of distinct elements of S, in every order.
Arrangements(S) ==
    { q \in UNION { [1..k -> S] : k \in 0..Cardinality(S) } :
        \A i, j \in 1..Len(q) : i # j => q[i] # q[j] }

\* The interfaces an interface may have in its directImpls: those after it in
\* the alphabet, which keeps the graph of directImpls acyclic.
After(i) ==
    CASE i = "A" -> { "B", "C", "D" }
      [] i = "B" -> { "C", "D" }
      [] i = "C" -> { "D" }
      [] OTHER -> {}

\* directImpls of every node and superClass of every class.  pushDirectImpl
\* keeps the entries of directImpls distinct.  K may extend L.
Graphs ==
    { [directImpls |-> [A |-> a, B |-> b, C |-> c, D |-> <<>>, K |-> k, L |-> l],
       superClass |-> sc] :
        a \in Arrangements(After("A")),
        b \in Arrangements(After("B")),
        c \in Arrangements(After("C")),
        k \in { <<>>, << "A" >>, << "C", "B" >> },
        l \in { <<>>, << "D" >>, << "B" >> },
        sc \in { [K |-> NoClass, L |-> NoClass], [K |-> "L", L |-> NoClass] } }

RECURSIVE SuperClassChain(_, _)
\* The classes forEachSuperClass passes to its callback, in call order: the
\* recursion on this.superClass comes before cb(this.superClass).
SuperClassChain(g, c) ==
    IF g.superClass[c] = NoClass THEN <<>>
    ELSE Append(SuperClassChain(g, g.superClass[c]), g.superClass[c])

\* cb(i) after rec(i) has returned with st
AfterRec(st, i) == [st EXCEPT !.calls = Append(@, i)]

RECURSIVE RecNoVisitedSet(_, _, _, _)
\* Mutant of Rec: no visited set is kept.
RecNoVisitedSet(g, node, k, st) ==
    IF k > Len(g.directImpls[node]) THEN st
    ELSE RecNoVisitedSet(g, node, k + 1,
             AfterRec(RecNoVisitedSet(g, g.directImpls[node][k], 1, st),
                      g.directImpls[node][k]))

RECURSIVE Rec(_, _, _, _)
\* rec(node) of forEachSuperImpl, from the k-th entry of node.directImpls; st
\* holds the visited set and the calls of cb made so far.
Rec(g, node, k, st) ==
    IF k > Len(g.directImpls[node]) THEN st
    ELSE IF g.directImpls[node][k] \in st.visited THEN Rec(g, node, k + 1, st)
    ELSE Rec(g, node, k + 1,
             AfterRec(Rec(g, g.directImpls[node][k], 1,
                          [st EXCEPT !.visited = @ \cup { g.directImpls[node][k] }]),
                      g.directImpls[node][k]))

\* InterfaceType.forEachSuperImpl: the arguments of the calls of cb, in order
InterfaceForEachSuperImpl(g, node) ==
    Rec(g, node, 1, [visited |-> {}, calls |-> <<>>]).calls

RECURSIVE RecEach(_, _, _, _)
\* this.forEachSuperClass((c) => { rec(c); }) over the classes cs, from index k
RecEach(g, cs, k, st) ==
    IF k > Len(cs) THEN st ELSE RecEach(g, cs, k + 1, Rec(g, cs[k], 1, st))

\* ClassType.forEachSuperImpl: the arguments of the calls of cb, in order
ClassForEachSuperImpl(g, node) ==
    Rec(g, node, 1,
        RecEach(g, SuperClassChain(g, node), 1, [visited |-> {}, calls |-> <<>>])).calls

InitImpl ==
    /\ input \in { [fn |-> "forEachSuperImpl", graph |-> g, start |-> n] :
                     g \in Graphs, n \in Interfaces \cup Classes }
    /\ output = <<>>
    /\ tree = <<>>
    /\ ListIdle
    /\ oracle = NoProgram
    /\ CollectorInit

\* output.calls: the interfaces the callback is invoked for, in order
CallInterfaceForEachSuperImpl ==
    /\ input.fn = "forEachSuperImpl" /\ output = <<>>
    /\ input.start \in Interfaces
    /\ output' = [calls |-> InterfaceForEachSuperImpl(input.graph, input.start)]
    /\ CallFrame

CallClassForEachSuperImpl ==
    /\ input.fn = "forEachSuperImpl" /\ output = <<>>
    /\ input.start \in Classes
    /\ output' = [calls |-> ClassForEachSuperImpl(input.graph, input.start)]
    /\ CallFrame

NextImpl ==
    \/ CallInterfaceForEachSuperImpl
    \/ CallClassForEachSuperImpl

SpecImpl == InitImpl /\ [][NextImpl]_vars

-----------------------------------------------------------------------------
(* Namespace (data.ts): the namespace tree *)

\* Namespaces and classes/interfaces are objects; a reference to one is its
\* index in tree.namespaces or tree.items.  NoObject is undefined.
NoObject == 0
RootNamespace == 1

protoName == << "_", "_", "p", "r", "o", "t", "o", "_", "_" >>
ColonColon == << ":", ":" >>

\* jsNames passed to the getOrCreate methods: the empty name, a plain name,
\* two names that escape to the same rustName, and __proto__.
JsNames == { <<>>, << "a" >>, << "b", "-" >>, << "b", "_" >>, protoName }
DocsValues == { << "d", "1" >>, << "d", "2" >> }
ItemNames == { << "x" >> }

\* How many getOrCreate calls are followed.
MaxCalls == 2

\* The object literal {} used as a name map: its own properties and its
\* prototype, NoObject standing for Object.prototype.
EmptyNameMap == [own |-> <<>>, proto |-> NoObject]

\* nameMap.hasOwnProperty(rustName)
HasOwnProperty(nameMap, rustName) == rustName \in DOMAIN nameMap.own

\* nameMap[rustName] = newItem: an assignment to __proto__ goes to the setter
\* of Object.prototype, which replaces the prototype and adds no own property.
SetProperty(nameMap, rustName, newItem) ==
    IF rustName = protoName THEN [nameMap EXCEPT !.proto = newItem]
    ELSE [nameMap EXCEPT !.own = [k \in DOMAIN @ \cup { rustName } |->
                                     IF k = rustName THEN newItem ELSE @[k]]]

\* Mutant of NamespaceConstructorThrows: the constructor accepts every name.
NamespaceConstructorNeverThrows(parent, jsName) == FALSE

\* The check at the head of the Namespace constructor.
NamespaceConstructorThrows(parent, jsName) == jsName = <<>> /\ parent # NoObject

\* new Namespace(parent, jsName)
NewNamespace(parent, jsName) ==
    [parent |-> parent, jsName |-> jsName, rustName |-> escapeRustName(jsName),
     subNamespaces |-> EmptyNameMap, classes |-> EmptyNameMap,
     interfaces |-> EmptyNameMap]

\* new ClassType(jsName, this, docs) / new InterfaceType(jsName, this, docs)
NewItem(kind, jsName, namespace, docs) ==
    [kind |-> kind, jsName |-> jsName, rustName |-> escapeRustName(jsName),
     namespace |-> namespace, docs |-> docs]

\* The tree after construction of the root: new Namespace(undefined, "").
NewTree ==
    [namespaces |-> << NewNamespace(NoObject, <<>>) >>, items |-> <<>>,
     calls |-> 0, log |-> {}]

\* What a call leaves: the tree, whether it threw, and the object returned.
CallResult(t, threw, value) == [tree |-> t, threw |-> threw, ret |-> value]

\* getOrCreateSubNamespace with rustName = escapeRustName(jsName)
SubNamespaceOfRustName(t, this, jsName, rustName) ==
    IF HasOwnProperty(t.namespaces[this].subNamespaces, rustName)
    THEN CallResult(t, FALSE, t.namespaces[this].subNamespaces.own[rustName])
    ELSE IF NamespaceConstructorThrows(this, jsName)
    THEN CallResult(t, TRUE, NoObject)
    ELSE CallResult(
             [t EXCEPT !.namespaces =
                 Append([@ EXCEPT ![this].subNamespaces =
                            SetProperty(@, rustName, Len(t.namespaces) + 1)],
                        NewNamespace(this, jsName))],
             FALSE, Len(t.namespaces) + 1)

\* Namespace.getOrCreateSubNamespace
getOrCreateSubNamespace(t, this, jsName) ==
    SubNamespaceOfRustName(t, this, jsName, escapeRustName(jsName))

\* getOrCreateClass with rustName = escapeRustName(jsName)
ClassOfRustName(t, this, jsName, docs, rustName) ==
    IF HasOwnProperty(t.namespaces[this].classes, rustName)
    THEN CallResult(t, FALSE, t.namespaces[this].classes.own[rustName])
    ELSE CallResult(
             [t EXCEPT !.namespaces[this].classes =
                           SetProperty(@, rustName, Len(t.items) + 1),
                       !.items = Append(@, NewItem("class", jsName, this, docs))],
             FALSE, Len(t.items) + 1)

\* Namespace.getOrCreateClass
getOrCreateClass(t, this, jsName, docs) ==
    ClassOfRustName(t, this, jsName, docs, escapeRustName(jsName))

\* getOrCreateInterface with rustName = escapeRustName(jsName)
InterfaceOfRustName(t, this, jsName, docs, rustName) ==
    IF HasOwnProperty(t.namespaces[this].interfaces, rustName)
    THEN CallResult(t, FALSE, t.namespaces[this].interfaces.own[rustName])
    ELSE CallResult(
             [t EXCEPT !.namespaces[this].interfaces =
                           SetProperty(@, rustName, Len(t.items) + 1),
                       !.items = Append(@, NewItem("interface", jsName, this, docs))],
             FALSE, Len(t.items) + 1)

\* Namespace.getOrCreateInterface
getOrCreateInterface(t, this, jsName, docs) ==
    InterfaceOfRustName(t, this, jsName, docs, escapeRustName(jsName))

\* fromHere.set(node, path)
MapSet(fromHere, node, path) ==
    [n \in DOMAIN fromHere \cup { node } |-> IF n = node THEN path ELSE fromHere[n]]

RECURSIVE PathRecFullyQualified(_, _, _, _)
\* Mutant of PathRec: pathSoFar is recorded for the root only.
PathRecFullyQualified(t, node, pathSoFar, fromHere) ==
    IF t.namespaces[node].parent = NoObject
    THEN [fromHere |-> MapSet(fromHere, node, pathSoFar), fqn |-> [defined |-> TRUE, value |-> pathSoFar]]
    ELSE PathRecFullyQualified(t, t.namespaces[node].parent,
             IF pathSoFar # <<>>
             THEN t.namespaces[node].rustName \o ColonColon \o pathSoFar
             ELSE t.namespaces[node].rustName,
             fromHere)

RECURSIVE PathRec(_, _, _, _)
\* rec(node, pathSoFar) of getRustPathTo: the Map fromHere and fqn it leaves.
PathRec(t, node, pathSoFar, fromHere) ==
    IF t.namespaces[node].parent # NoObject
    THEN IF t.namespaces[node].rustName # <<>>
         THEN PathRec(t, t.namespaces[node].parent,
                  IF pathSoFar # <<>>
                  THEN t.namespaces[node].rustName \o ColonColon \o pathSoFar
                  ELSE t.namespaces[node].rustName,
                  MapSet(fromHere, node, pathSoFar))
         ELSE [fromHere |-> MapSet(MapSet(fromHere, node, pathSoFar),
                                   t.namespaces[node].parent, pathSoFar),
               fqn |-> [defined |-> FALSE, value |-> <<>>]]
    ELSE [fromHere |-> MapSet(fromHere, node, pathSoFar), fqn |-> [defined |-> TRUE, value |-> pathSoFar]]

\* result + "::" + itemName, or itemName for an empty result
WithItem(result, itemName) ==
    IF Len(result) = 0 THEN itemName ELSE result \o ColonColon \o itemName

RECURSIVE Climb(_, _, _, _)
\* The while loop of getRustPathTo from cur, and the lines after it.
Climb(t, cur, r, itemName) ==
    IF cur # NoObject
    THEN IF cur \in DOMAIN r.fromHere
         THEN WithItem(r.fromHere[cur], itemName)
         ELSE Climb(t, t.namespaces[cur].parent, r, itemName)
    ELSE IF r.fqn.defined THEN WithItem(r.fqn.value, itemName) ELSE itemName

\* Namespace.getRustPathTo
getRustPathTo(t, this, other, itemName) ==
    Climb(t, this, PathRec(t, other, <<>>, <<>>), itemName)

InitTree ==
    /\ tree = NewTree
    /\ input = <<>>
    /\ output = <<>>
    /\ ListIdle
    /\ oracle = NoProgram
    /\ CollectorInit

TreeFrame == UNCHANGED << listVars, collectorVars >>

\* The call is counted and what it returned is logged under the escaped name.
Logged(t, fn, this, jsName, r) ==
    [t EXCEPT !.calls = @ + 1,
              !.log = IF r.threw THEN @
                      ELSE @ \cup { [fn |-> fn, this |-> this,
                                     rustName |-> escapeRustName(jsName),
                                     ret |-> r.ret] }]

\* A getOrCreate call fn on the namespace this has ended with r.
Ended(fn, this, jsName, docs, r) ==
    /\ tree' = Logged(r.tree, fn, this, jsName, r)
    /\ input' = [fn |-> fn, this |-> this, jsName |-> jsName, docs |-> docs]
    /\ output' = [threw |-> r.threw, ret |-> r.ret, before |-> tree]
    /\ TreeFrame

GetOrCreateSubNamespace ==
    /\ tree.calls < MaxCalls
    /\ \E this \in 1..Len(tree.namespaces), jsName \in JsNames :
          Ended("getOrCreateSubNamespace", this, jsName, <<>>,
                getOrCreateSubNamespace(tree, this, jsName))

GetOrCreateClass ==
    /\ tree.calls < MaxCalls
    /\ \E this \in 1..Len(tree.namespaces), jsName \in JsNames, docs \in DocsValues :
          Ended("getOrCreateClass", this, jsName, docs,
                getOrCreateClass(tree, this, jsName, docs))

GetOrCreateInterface ==
    /\ tree.calls < MaxCalls
    /\ \E this \in 1..Len(tree.namespaces), jsName \in JsNames, docs \in DocsValues :
          Ended("getOrCreateInterface", this, jsName, docs,
                getOrCreateInterface(tree, this, jsName, docs))

GetRustPathTo ==
    /\ \E this, other \in 1..Len(tree.namespaces), itemName \in ItemNames :
          /\ input' = [fn |-> "getRustPathTo", this |-> this, other |-> other,
                       itemName |-> itemName]
          /\ output' = [threw |-> FALSE,
                        ret |-> getRustPathTo(tree, this, other, itemName),
                        before |-> tree]
    /\ UNCHANGED tree
    /\ TreeFrame

NextTree ==
    \/ GetOrCreateSubNamespace
    \/ GetOrCreateClass
    \/ GetOrCreateInterface
    \/ GetRustPathTo

SpecTree == InitTree /\ [][NextTree]_vars

-----------------------------------------------------------------------------
(* ListOfFunctions of codegen.ts: the loop of getResolvedFunctions *)

\* How many passes of the while loop are followed.
MaxRounds == 3

\* The lists add() can have built: up to MaxFuncs functions, no two the same.
StoredLists ==
    { fs \in UNION { [1..n -> FunctionUniverse] : n \in 0..MaxFuncs } :
        \A i, j \in 1..Len(fs) : i # j => ~NamedFunctionIsSameAs(fs[i], fs[j]) }

\* Every generator of pending has been asked for one more name.
Advanced(pending) ==
    [i \in 1..Len(pending) |-> [f |-> pending[i].f, yielded |-> pending[i].yielded + 1]]

\* One pass of the while loop of codegen.ts: notResolvedYet.filter(...) runs
\* the callback of data.ts on every resolver, and its result is dropped, so
\* notResolvedYet keeps every resolver.
CodegenPass(st, passed) ==
    [notResolvedYet |-> Advanced(st.notResolvedYet),
     alreadyOutputted |-> passed.alreadyOutputted,
     result |-> passed.result,
     rounds |-> st.rounds + 1,
     returned |-> FALSE]

InitCodegen ==
    /\ input \in { [fn |-> "codegen.getResolvedFunctions", functions |-> fs] :
                     fs \in StoredLists }
    /\ output = <<>>
    /\ tree = <<>>
    /\ ListIdle
    /\ oracle = NoProgram
    /\ CollectorInit

\* The sort and the map that makes notResolvedYet.
CodegenEnter ==
    /\ input.fn = "codegen.getResolvedFunctions" /\ output = <<>>
    /\ output' = [notResolvedYet |-> Resolvers(SortFunctions(input.functions)),
                  alreadyOutputted |-> {}, result |-> <<>>, rounds |-> 0,
                  returned |-> FALSE]
    /\ CallFrame

\* while (notResolvedYet.length > 0) { notResolvedYet.filter(...) }
CodegenFilter ==
    /\ input.fn = "codegen.getResolvedFunctions" /\ output # <<>>
    /\ ~output.returned
    /\ Len(output.notResolvedYet) > 0
    /\ output.rounds < MaxRounds
    /\ output' = CodegenPass(output,
                     FilterPass(output.notResolvedYet, 1,
                                [kept |-> <<>>, alreadyOutputted |-> output.alreadyOutputted,
                                 result |-> output.result, rounds |-> output.rounds]))
    /\ CallFrame

\* The loop has ended: return result.
CodegenReturn ==
    /\ input.fn = "codegen.getResolvedFunctions" /\ output # <<>>
    /\ ~output.returned
    /\ Len(output.notResolvedYet) = 0
    /\ output' = [output EXCEPT !.returned = TRUE]
    /\ CallFrame

NextCodegen ==
    \/ CodegenEnter
    \/ CodegenFilter
    \/ CodegenReturn

SpecCodegen == InitCodegen /\ [][NextCodegen]_vars

-----------------------------------------------------------------------------
(* Properties of the Collector *)

\* Every export has been collected and every call has returned.
Finished == ~overflow /\ stack = <<>> /\ driverPos > Len(oracle.exports)

\* Two calls of collectSignature for one signature are on the call stack.
SignatureWithinItself ==
    \E i, j \in 1..Len(stack) :
        /\ i < j
        /\ stack[i].proc = "collectSignature"
        /\ stack[j].proc = "collectSignature"
        /\ stack[i].sig = stack[j].sig

\* C4: the collection pass terminates on every finite type graph, cyclic ones
\* included: no signature is resolved a second time while its first resolution
\* is still in progress, and the recursion never exhausts the call stack.
C4_NoEntityEnteredTwiceInProgress == ~SignatureWithinItself /\ ~overflow

\* The ClassType and InterfaceType values a symbol was resolved to.
NodeReprs(s) == { v \in seen.reprs[s] : v.kind \in { "class", "interface" } }

\* C5: resolving the same oracle identity twice returns the same model node:
\* all calls of collectType(t) return one value, all calls of collectSymbol(s)
\* return one value, and every path that reaches a class or interface
\* (collectSymbol, collectType, a base reference) yields one and the same node.
C5_SameIdentitySameNode ==
    /\ \A t \in DOMAIN seen.types : Cardinality(seen.types[t]) <= 1
    /\ \A s \in DOMAIN seen.symbols : Cardinality(seen.symbols[s]) <= 1
    /\ \A s \in DOMAIN seen.reprs : Cardinality(NodeReprs(s)) <= 1

\* C6: after collection every source symbol has at most one node in the
\* namespace tree, never both a ClassType node and an InterfaceType node.
C6_AtMostOneNodePerSymbol ==
    Finished =>
        \A i, j \in 1..Len(nodes) : nodes[i].symbol = nodes[j].symbol => i = j

\* The namespaces on the way to the symbols declared in an entry file.
EntryNamespaces ==
    UNION { collectSymbolEnclosingNamespaces(oracle.symbols[s]).visited :
              s \in { x \in DOMAIN oracle.symbols : oracle.symbols[x].inEntryFile } }

\* C7: a ClassType or InterfaceType node exists only for a symbol with a
\* declaration in an entry file; a symbol declared in other files only, also
\* as a base type or in an implements clause, adds no node and no namespace.
C7_NodesOnlyForEntryFileSymbols ==
    /\ \A k \in 1..Len(nodes) : oracle.symbols[nodes[k].symbol].inEntryFile
    /\ namespaces \subseteq ({ <<>> } \cup EntryNamespaces)

\* The Variables the Collector has made: the properties of the nodes and the
\* arguments of the registered closures.
CollectedVariables ==
    UNION { Range(nodes[k].properties) : k \in 1..Len(nodes) }
    \cup UNION { Range(closures[k].args) : k \in 1..Len(closures) }

\* C15: at an optional parameter or property, wrapping a resolved type whose
\* canBeUndefined flag is true is a no-op, the result being structurally equal
\* (cmpTypes == 0) to the unwrapped type, and no Optional whose subtype is an
\* Optional is produced.
C15_OptionalOfUndefinableIsNoOp ==
    \A v \in CollectedVariables :
        v.type.kind = "optional" =>
            /\ v.type.subtype.kind # "optional"
            /\ (v.isOptional /\ canBeUndefined(v.type.subtype)) =>
                  cmpTypes(v.type, v.type.subtype) = 0

\* The union types of the program the Collector has resolved.
CollectedUnions ==
    { t \in DOMAIN oracle.types : oracle.types[t].isUnion /\ collectedTypes[t].defined }

\* The resolved types of the branches of the union t.
BranchTypes(t) ==
    { collectedTypes[oracle.types[t].types[i]].value : i \in 1..Len(oracle.types[t].types) }

\* C16: a union resolves to the resolved type of its branches when all of
\* them are typesAreSame, and to Unknown when two of them differ: three
\* branches that resolve to String give String, String with Number Unknown.
C16_UnionOfSameBranchesElseUnknown ==
    \A t \in CollectedUnions :
        /\ \A i \in 1..Len(oracle.types[t].types) :
              collectedTypes[oracle.types[t].types[i]].defined
        /\ IF \A x, y \in BranchTypes(t) : typesAreSame(x, y)
           THEN collectedTypes[t].value \in BranchTypes(t)
           ELSE collectedTypes[t].value = Unknown
        /\ t = "tU3" => (BranchTypes(t) = { String } /\ collectedTypes[t].value = String)
        /\ t = "tU2" => (BranchTypes(t) = { String, Number } /\ collectedTypes[t].value = Unknown)

\* The union of three string literal types has been resolved and has become
\* the type of the property p of a.
C16_Witness ==
    /\ Finished
    /\ "tU3" \in CollectedUnions
    /\ \E k \in 1..Len(nodes) :
          /\ nodes[k].symbol = "sA"
          /\ \E v \in Range(nodes[k].properties) : v.type = String

\* The names of the members of a type for which collectMembers pushes a
\* Variable, in order.
RECURSIVE PublicPropertyNames(_)
PublicPropertyNames(members) ==
    IF members = <<>> THEN <<>>
    ELSE (IF Head(members).isProperty /\ ~isPrivate(Head(members))
          THEN << Head(members).name >> ELSE <<>>)
         \o PublicPropertyNames(Tail(members))

\* The property names collectMembers has to give the node: those of the
\* declared type of its symbol.
ExpectedPropertyNames(node) ==
    PublicPropertyNames(oracle.types[oracle.symbols[node.symbol].declaredType].properties)

PropertyNames(node) == [i \in 1..Len(node.properties) |-> node.properties[i].jsName]

\* How often collectMembers has returned for the node k.
MembersRuns(k) ==
    Cardinality({ i \in 1..Len(seen.membersDone) : seen.membersDone[i] = k })

SingleCallSignatureTypes ==
    { t \in DOMAIN oracle.types : Len(oracle.types[t].callSigs) = 1 }

\* C24: a type with exactly one call signature is always modeled as a closure:
\* it resolves to a FunctionType of the closure registry and never gets a
\* ClassType or InterfaceType node, by whatever path the collector reaches it.
C24_SingleCallSignatureIsClosure ==
    /\ \A t \in SingleCallSignatureTypes :
          collectedTypes[t].defined =>
              /\ collectedTypes[t].value.kind = "function"
              /\ collectedTypes[t].value \in Range(closures)
    /\ \A k \in 1..Len(nodes) :
          oracle.symbols[nodes[k].symbol].declaredType \notin SingleCallSignatureTypes

\* The base types the oracle reports for the type a node was created for.
BaseTypesOf(node) == oracle.types[oracle.symbols[node.symbol].declaredType].baseTypes

\* The base type has a symbol and is reported as a class.
IsClassBase(t) == oracle.types[t].symbol # NoSymbol /\ oracle.types[t].isClass

\* The base type has a symbol and is reported as an interface.
IsInterfaceBase(t) ==
    /\ oracle.types[t].symbol # NoSymbol
    /\ ~oracle.types[t].isClass
    /\ oracle.types[t].isClassOrInterface

\* The position of the first base type that is a class, or 0.
FirstClassBase(bases) ==
    IF \E i \in 1..Len(bases) : IsClassBase(bases[i])
    THEN CHOOSE i \in 1..Len(bases) :
            IsClassBase(bases[i]) /\ \A j \in 1..(i - 1) : ~IsClassBase(bases[j])
    ELSE 0

\* The node of a kind the symbol of a base type is registered as.
BaseRef(kind, t) ==
    NodeRef(kind, collectSymbolEnclosingNamespaces(oracle.symbols[oracle.types[t].symbol]).ns,
            collectSymbolEnclosingNamespaces(oracle.symbols[oracle.types[t].symbol]).name)

\* The superClass of a class node whose bases have all been visited.
ExpectedSuperClass(bases) ==
    IF FirstClassBase(bases) = 0 THEN NoRef
    ELSE BaseRef("class", bases[FirstClassBase(bases)])

\* superClass is unset or the first base class; when collectClass has
\* returned it is the first base class, every interface base is in
\* directImpls, and a later base class is neither superClass nor in
\* directImpls, nor is there a node for its symbol (the programs refer to it
\* in the base list only).
SuperClassIsFirstBaseClass(node, bases, done) ==
    /\ node.superClass \in { NoRef, ExpectedSuperClass(bases) }
    /\ done =>
          /\ node.superClass = ExpectedSuperClass(bases)
          /\ \A i \in 1..Len(bases) :
                IsInterfaceBase(bases[i]) =>
                    BaseRef("interface", bases[i]) \in Range(node.directImpls)
          /\ \A i \in 1..Len(bases) :
                (IsClassBase(bases[i]) /\ i # FirstClassBase(bases)) =>
                    /\ \A d \in 1..Len(node.directImpls) :
                          node.directImpls[d].rustName # BaseRef("class", bases[i]).rustName
                    /\ \A k \in 1..Len(nodes) :
                          nodes[k].symbol # oracle.types[bases[i]].symbol

RECURSIVE NonRestParameters(_)
\* The parameters without a rest token, in call order.
NonRestParameters(parameters) ==
    IF parameters = <<>> THEN <<>>
    ELSE (IF Head(parameters).hasDotDotDot THEN <<>> ELSE << Head(parameters) >>)
         \o NonRestParameters(Tail(parameters))

\* args are the Variables of the parameters, one each and in their order.
ArgsAreParameters(args, parameters) ==
    /\ Len(args) = Len(parameters)
    /\ \A i \in 1..Len(args) :
          /\ args[i].jsName = parameters[i].name
          /\ args[i].rustName = escapeRustName(parameters[i].name)
          /\ args[i].jsType = oracle.types[parameters[i].type].display
          /\ args[i].isOptional = parameters[i].isOptional
          /\ (args[i].type.kind = "optional") = parameters[i].isOptional

\* collectSignature has made all its calls and returns next.
SignatureReturns ==
    Running /\ Top.proc = "collectSignature" /\ Top.phase = "run" /\ Top.tasks = <<>>

\* C28: the args of the FunctionType collectSignature returns are exactly the
\* parameters of the signature that have no rest token, in call order.
C28_ArgsAreTheNonRestParameters ==
    [][SignatureReturns =>
          /\ ret'.kind = "function"
          /\ ArgsAreParameters(ret'.args, NonRestParameters(Top.sig.parameters))]_vars

\* collectSignature returns for q(x: string, y: number, ...z: string): void.
C28_Witness ==
    /\ SignatureReturns
    /\ Len(Top.sig.parameters) = 3
    /\ Top.sig.parameters[3].hasDotDotDot
    /\ Len(Top.list) = 2

\* The members type.getProperties() lists for the type a node was created for.
MembersOf(node) == oracle.types[oracle.symbols[node.symbol].declaredType].properties

\* The first declaration of the member carries a private or protected modifier.
DeclaredPrivateOrProtected(m) ==
    /\ m.declarations # <<>>
    /\ Head(m.declarations).hasModifiers
    /\ Range(Head(m.declarations).modifiers) \cap { "PrivateKeyword", "ProtectedKeyword" } # {}

MethodsNamed(node, name) ==
    { i \in 1..Len(node.methods.functions) : node.methods.functions[i].jsName = name }

PropertiesNamed(node, name) ==
    { i \in 1..Len(node.properties) : node.properties[i].jsName = name }

\* The nodes for which collectMembers has returned.
MembersCollected == { k \in 1..Len(nodes) : k \in Range(seen.membersDone) }

\* A member that is private or protected has neither a method nor a property;
\* any other member has one Variable if it is flagged as a property, else none.
MemberVisibility(node, m) ==
    IF DeclaredPrivateOrProtected(m)
    THEN MethodsNamed(node, m.name) = {} /\ PropertiesNamed(node, m.name) = {}
    ELSE Cardinality(PropertiesNamed(node, m.name)) = (IF m.isProperty THEN 1 ELSE 0)

OneMethodPerDistinctSignature(node, name, callSigs) ==
    /\ \A j \in 1..Len(callSigs) :
          \E i \in MethodsNamed(node, name) :
              ArgsAreParameters(node.methods.functions[i].signature.args,
                                NonRestParameters(callSigs[j].parameters))
    /\ \A i \in MethodsNamed(node, name) :
          \E j \in 1..Len(callSigs) :
              ArgsAreParameters(node.methods.functions[i].signature.args,
                                NonRestParameters(callSigs[j].parameters))
    /\ \A i, j \in MethodsNamed(node, name) :
          i # j => ~NamedFunctionIsSameAs(node.methods.functions[i], node.methods.functions[j])

-----------------------------------------------------------------------------
(* Properties of the overload resolver *)

ResolvedNames(rfs) == [i \in 1..Len(rfs) |-> rfs[i].resolvedName]

\* The name each function got, as a set of <<function, name>> pairs.
Assignment(rfs) == { << rfs[i].f, rfs[i].resolvedName >> : i \in 1..Len(rfs) }

\* seq rearranged by the permutation p of its indices
Permuted(seq, p) == [i \in 1..Len(seq) |-> seq[p[i]]]

IndexPermutations(n) ==
    { p \in [1..n -> 1..n] : \A i, j \in 1..n : i # j => p[i] # p[j] }

SharesName(fs) ==
    \E i, j \in 1..Len(fs) :
        i # j /\ fs[i].unresolvedRustName = fs[j].unresolvedRustName

\* C1: getResolvedFunctions() returns exactly one (resolvedName, function)
\* pair for each stored function, and the resolved names are pairwise distinct.
C1_OnePairPerFunctionDistinctNames ==
    (lastOp = "getResolvedFunctions" /\ ~hung) =>
        /\ Len(returned) = Len(list.functions)
        /\ \A i \in 1..Len(list.functions) :
              Cardinality({ j \in 1..Len(returned) : returned[j].f = list.functions[i] }) = 1
        /\ \A i, j \in 1..Len(returned) :
              i # j => returned[i].resolvedName # returned[j].resolvedName

C1_Witness ==
    /\ lastOp = "getResolvedFunctions"
    /\ ~hung
    /\ Len(list.functions) = MaxFuncs
    /\ SharesName(list.functions)
    /\ Len(returned) = MaxFuncs

\* C2: the name each stored function gets depends only on the set of stored
\* functions: resolving the stored functions in any other insertion order
\* gives every function the name the call gave it.
C2_NamesIndependentOfInsertionOrder ==
    (lastOp = "getResolvedFunctions" /\ ~hung) =>
        \A p \in IndexPermutations(Len(list.functions)) :
            Assignment(ResolveNames(Permuted(list.functions, p)).r.result) = Assignment(returned)

\* The call has resolved overloads of one name, which compete for the same
\* candidate names in every order.
C2_Witness ==
    /\ lastOp = "getResolvedFunctions"
    /\ ~hung
    /\ Len(returned) >= 3
    /\ \E i, j, k \in 1..Len(returned) :
          /\ i < j /\ j < k
          /\ returned[i].f.unresolvedRustName = returned[j].f.unresolvedRustName
          /\ returned[j].f.unresolvedRustName = returned[k].f.unresolvedRustName

\* C3: the resolution loop ends, after at most N rounds for N stored functions.
C3_LoopEndsWithinNRounds ==
    /\ ~hung
    /\ lastRounds <= Len(list.functions)

\* The bound is reached: N functions took N rounds.
C3_Witness ==
    /\ lastOp = "getResolvedFunctions"
    /\ ~hung
    /\ Len(list.functions) = MaxFuncs
    /\ lastRounds = MaxFuncs

NoTrueDuplicates(fs) ==
    \A i, j \in 1..Len(fs) : i # j => ~NamedFunctionIsSameAs(fs[i], fs[j])

\* C8: add(f) changes nothing (functions, count, caches) when a stored function
\* has the same unresolvedRustName and a signature with cmp == 0, so no two
\* stored functions are ever the same.
C8_AddOfDuplicateIsNoOp ==
    /\ [][ (lastOp' = "add"
            /\ \E i \in 1..Len(list.functions) :
                   NamedFunctionIsSameAs(lastArg', list.functions[i]))
           => list' = list ]_vars
    /\ [] NoTrueDuplicates(list.functions)

\* An add of a function that is the same as a stored one but has other docs,
\* on a list with a cached result.
C8_Witness ==
    /\ lastOp = "add"
    /\ lastArg \notin Range(list.functions)
    /\ \E i \in 1..Len(list.functions) : NamedFunctionIsSameAs(lastArg, list.functions[i])
    /\ list.cachedResolvedFunctions.defined
    /\ list.cachedResolvedNameMap.defined
    /\ count(list) = 2

\* The functions of a name map, with the key each one is filed under.
MapPairs(map) ==
    UNION { { << map[i].key, map[i].value[j] >> : j \in 1..Len(map[i].value) } :
            i \in 1..Len(map) }

MapSize(map) ==
    LET RECURSIVE Sum(_)
        Sum(i) == IF i > Len(map) THEN 0 ELSE Len(map[i].value) + Sum(i + 1)
    IN Sum(1)

\* C9: no query returns a stale result: each covers exactly the functions
\* stored when it is called, with the names a fresh list holding the same
\* functions produces.
C9_NoStaleResults ==
    LET fresh == ResolveNames(list.functions).r.result
    IN /\ (lastOp = "getResolvedFunctions" /\ ~hung) => returned = fresh
       /\ (lastOp = "getResolvedNameMap" /\ ~hung) =>
             /\ MapPairs(returned) = { << rf.resolvedName, rf >> : rf \in Range(fresh) }
             /\ MapSize(returned) = Len(list.functions)
       /\ lastOp = "getUnresolvedNameMap" =>
             /\ MapPairs(returned) =
                   { << f.unresolvedRustName, f >> : f \in Range(list.functions) }
             /\ MapSize(returned) = Len(list.functions)
       /\ list.cachedResolvedFunctions.defined =>
             list.cachedResolvedFunctions.value = fresh

\* A query on a list whose earlier cached results an add has dropped.
C9_Witness ==
    /\ invalidated
    /\ lastOp = "getResolvedNameMap"
    /\ ~hung
    /\ list.cachedUnresolvedNameMap.defined
    /\ Len(list.functions) = MaxFuncs
    /\ Len(returned) = MaxFuncs

\* Exactly three functions, all named make, without arguments and with
\* pairwise different return types.
ThreeMakes(fs) ==
    /\ Len(fs) = 3
    /\ \A i \in 1..3 : fs[i].unresolvedRustName = make /\ Len(fs[i].signature.args) = 0
    /\ \A i, j \in 1..3 :
          i # j => ~typesAreSame(fs[i].signature.returnType, fs[j].signature.returnType)

make_0 == << "m", "a", "k", "e", "_", "0" >>
make_0a == << "m", "a", "k", "e", "_", "0", "a" >>
make_0b == << "m", "a", "k", "e", "_", "0", "b" >>

InCmpSortedOrder(rfs) ==
    \A i \in 1..Len(rfs) - 1 : NamedFunctionCmp(rfs[i].f, rfs[i + 1].f) < 0

OneIdentifierDifferentArities(fs) ==
    /\ Len(fs) >= 2
    /\ \A i, j \in 1..Len(fs) :
          /\ fs[i].unresolvedRustName = fs[j].unresolvedRustName
          /\ i # j => Len(fs[i].signature.args) # Len(fs[j].signature.args)

Occurrences(fs, f) ==
    Cardinality({ i \in 1..Len(fs) : fs[i].unresolvedRustName = f.unresolvedRustName })

\* identifier_<number of arguments> of f
WithArgCount(f) ==
    f.unresolvedRustName \o << "_" >> \o NumToString(Len(f.signature.args))

\* C21: a function whose unresolvedRustName no other function of the list has
\* resolves to exactly that identifier, whatever else the list holds.
C21_UniqueIdentifierKeepsBareName ==
    (lastOp = "getResolvedFunctions" /\ ~hung) =>
        \A i \in 1..Len(returned) :
            Occurrences(list.functions, returned[i].f) = 1 =>
                returned[i].resolvedName = returned[i].f.unresolvedRustName

\* The function bar_2 has been resolved next to overloads of bar, one of which
\* has two arguments.
C21_Witness ==
    /\ lastOp = "getResolvedFunctions"
    /\ ~hung
    /\ Len(returned) = 3
    /\ \E i, j \in 1..3 :
          /\ returned[i].f.unresolvedRustName = bar_2
          /\ returned[i].resolvedName = bar_2
          /\ returned[j].f.unresolvedRustName = bar
          /\ Len(returned[j].f.signature.args) = 2

\* C22: the naming scheme documented on ListOfFunctions: the bare identifier
\* is used only for an identifier that occurs once; each function of an
\* identifier that occurs several times resolves to identifier_<number of
\* arguments>, with a letter suffix only if that is still a duplicate.
C22_DocumentedNamingScheme ==
    (lastOp = "getResolvedFunctions" /\ ~hung) =>
        \A i \in 1..Len(returned) :
            IF Occurrences(list.functions, returned[i].f) = 1
            THEN returned[i].resolvedName = returned[i].f.unresolvedRustName
            ELSE /\ returned[i].resolvedName # returned[i].f.unresolvedRustName
                 /\ returned[i].resolvedName # WithArgCount(returned[i].f) =>
                       \E j \in 1..Len(returned) :
                           /\ j # i
                           /\ returned[j].resolvedName = WithArgCount(returned[i].f)

-----------------------------------------------------------------------------
(* Properties of the comparators *)

Called(fn) == input # <<>> /\ output # <<>> /\ input.fn = fn

Sign(n) == IF n < 0 THEN -1 ELSE IF n > 0 THEN 1 ELSE 0

\* C12: cmpTypes induces an equivalence: cmpTypes(a, a) is 0, cmpTypes(a, b)
\* is 0 exactly when cmpTypes(b, a) is, cmpTypes(a, b) = 0 and cmpTypes(b, c) = 0
\* imply cmpTypes(a, c) = 0, and typesAreSame(a, b) holds exactly when
\* cmpTypes(a, b) is 0.
C12_CmpTypesIsEquivalence ==
    Called("cmpTypes") =>
        /\ output.cmp["aa"] = 0
        /\ (output.cmp["ab"] = 0) <=> (output.cmp["ba"] = 0)
        /\ (output.cmp["ab"] = 0 /\ output.cmp["bc"] = 0) => output.cmp["ac"] = 0
        /\ output.same <=> (output.cmp["ab"] = 0)

\* Three values that are not all one value have compared equal: signatures
\* that differ in returnJsType, or Optionals of equal subtypes.
C12_Witness ==
    /\ Called("cmpTypes")
    /\ input.a # input.b
    /\ input.a.kind = "function"
    /\ input.c.kind = "function"
    /\ output.cmp["ab"] = 0
    /\ output.cmp["bc"] = 0

\* C20: cmpTypes, Variable.cmp, FunctionType.cmp and NamedFunction.cmp are
\* total orders up to their own equality: cmp(a, b) and cmp(b, a) have opposite
\* signs, cmp(a, b) < 0 and cmp(b, c) < 0 imply cmp(a, c) < 0, and functions
\* without true duplicates sort to one result whatever order they come in.
C20_ComparatorsAreTotalOrders ==
    (input # <<>> /\ output # <<>>) =>
        /\ \A p \in Pairs : output.cmp[p] \in Int
        /\ Sign(output.cmp["ab"]) = -Sign(output.cmp["ba"])
        /\ Sign(output.cmp["bc"]) = -Sign(output.cmp["cb"])
        /\ Sign(output.cmp["ac"]) = -Sign(output.cmp["ca"])
        /\ (output.cmp["ab"] < 0 /\ output.cmp["bc"] < 0) => output.cmp["ac"] < 0
        /\ (output.cmp["ab"] = 0 /\ output.cmp["bc"] < 0) => output.cmp["ac"] < 0
        /\ (output.cmp["ab"] < 0 /\ output.cmp["bc"] = 0) => output.cmp["ac"] < 0
        /\ (/\ input.fn = "NamedFunction.cmp"
            /\ NoTrueDuplicates(<< input.a, input.b, input.c >>)) =>
               \A p \in IndexPermutations(3) :
                   SortFunctions(Permuted(<< input.a, input.b, input.c >>, p)) = output.sorted

\* Three functions without true duplicates, given out of order, are sorted.
C20_Witness ==
    /\ Called("NamedFunction.cmp")
    /\ output.cmp["ab"] > 0
    /\ output.cmp["bc"] > 0
    /\ output.sorted = << input.c, input.b, input.a >>

-----------------------------------------------------------------------------
(* Properties of numToAbc *)

\* The place of a letter in the alphabet, from 0.
LetterIndex(c) == (CHOOSE k \in 1..Len(Letters) : Letters[k] = c) - 1

RECURSIVE Base26Value(_, _)
\* The number a string of letters denotes in base 26, most significant first.
Base26Value(letters, acc) ==
    IF letters = <<>> THEN acc
    ELSE Base26Value(Tail(letters), acc * 26 + LetterIndex(Head(letters)))

baName == << "b", "a" >>

\* C13: numToAbc is injective on the non-negative integers: no other number
\* gives the string the call returned, and the string read in base 26 is the
\* number; numToAbc(0) is "a", numToAbc(25) is "z" and numToAbc(26) is "ba".
C13_NumToAbcInjective ==
    Called("numToAbc") =>
        /\ \A m \in 0..MaxAbc : m # input.num => numToAbc(m) # output
        /\ Base26Value(output, 0) = input.num
        /\ input.num > 0 => output[1] # "a"
        /\ input.num = 0 => output = aName
        /\ input.num = 25 => output = zName
        /\ input.num = 26 => output = baName

\* A number of three base-26 digits has been converted.
C13_Witness ==
    /\ Called("numToAbc")
    /\ input.num >= 676
    /\ Len(output) = 3

-----------------------------------------------------------------------------
(* Properties of forEachSuperImpl *)

RECURSIVE ReachableFrom(_, _)
\* The interfaces reachable from a node through one or more directImpls links.
ReachableFrom(g, n) ==
    UNION { { g.directImpls[n][k] } \cup ReachableFrom(g, g.directImpls[n][k]) :
              k \in 1..Len(g.directImpls[n]) }

\* The interfaces a traversal from the start has to visit: for a class, those
\* reachable from it and from every class of its superClass chain.
ToVisit(g, start) ==
    IF start \in Interfaces THEN ReachableFrom(g, start)
    ELSE ReachableFrom(g, start)
         \cup UNION { ReachableFrom(g, SuperClassChain(g, start)[k]) :
                        k \in 1..Len(SuperClassChain(g, start)) }

\* A extends {B, C}, B extends D, C extends D.
Diamond(g) ==
    /\ g.directImpls["A"] = << "B", "C" >>
    /\ g.directImpls["B"] = << "D" >>
    /\ g.directImpls["C"] = << "D" >>

\* The place of the call of cb for the interface i, 0 if there is none.
CallIndex(calls, i) ==
    IF \E k \in 1..Len(calls) : calls[k] = i
    THEN CHOOSE k \in 1..Len(calls) : calls[k] = i
    ELSE 0

\* C14 as stated: in the diamond, forEachSuperImpl on A visits D before B and
\* C, and B and C before A.
C14_AsStated ==
    (Called("forEachSuperImpl") /\ Diamond(input.graph) /\ input.start = "A") =>
        /\ 0 < CallIndex(output.calls, "D")
        /\ CallIndex(output.calls, "D") < CallIndex(output.calls, "B")
        /\ CallIndex(output.calls, "D") < CallIndex(output.calls, "C")
        /\ CallIndex(output.calls, "B") < CallIndex(output.calls, "A")
        /\ CallIndex(output.calls, "C") < CallIndex(output.calls, "A")

\* C14: forEachSuperImpl invokes the callback exactly once for every interface
\* reachable through directImpls (for a class: from the class and from every
\* class of its superClass chain) and for nothing else, and for an interface
\* only after every interface reachable from it; in the diamond started at A
\* the calls are D, B, C, and the callback is not invoked for A itself.
C14_EachReachableOnceBasesFirst ==
    Called("forEachSuperImpl") =>
        /\ Range(output.calls) = ToVisit(input.graph, input.start)
        /\ \A j, k \in 1..Len(output.calls) : j # k => output.calls[j] # output.calls[k]
        /\ \A k \in 1..Len(output.calls) :
              \A i \in ReachableFrom(input.graph, output.calls[k]) :
                  0 < CallIndex(output.calls, i) /\ CallIndex(output.calls, i) < k
        /\ (Diamond(input.graph) /\ input.start = "A") => output.calls = << "D", "B", "C" >>

\* The traversal of the diamond from A has returned.
C14_Witness ==
    /\ Called("forEachSuperImpl")
    /\ Diamond(input.graph)
    /\ input.start = "A"
    /\ Len(output.calls) = 3

-----------------------------------------------------------------------------
(* Properties of the namespace tree *)

RECURSIVE ChainTo(_, _)
\* The namespaces from the root down to n, n included.
ChainTo(t, n) ==
    IF t.namespaces[n].parent = NoObject THEN << n >>
    ELSE Append(ChainTo(t, t.namespaces[n].parent), n)

\* How many leading namespaces the chains p and q share.
CommonLength(p, q) ==
    CHOOSE k \in 0..Len(p) :
        /\ k <= Len(q)
        /\ \A i \in 1..k : p[i] = q[i]
        /\ (k < Len(p) /\ k < Len(q)) => p[k + 1] # q[k + 1]

\* The namespaces on the way from just below the lowest common ancestor of
\* this and other down to other.
BelowCommonAncestor(t, this, other) ==
    SubSeq(ChainTo(t, other),
           CommonLength(ChainTo(t, this), ChainTo(t, other)) + 1,
           Len(ChainTo(t, other)))

RECURSIVE JoinedRustNames(_, _)
\* The rustNames of the namespaces ns, each followed by "::".
JoinedRustNames(t, ns) ==
    IF ns = <<>> THEN <<>>
    ELSE t.namespaces[Head(ns)].rustName \o ColonColon \o JoinedRustNames(t, Tail(ns))

\* C17: a.getRustPathTo(b, item) is the rustNames of the namespaces from just
\* below the lowest common ancestor of a and b down to b, joined by "::" and
\* followed by "::" and the item; it is the bare item when that path is empty.
C17_PathFromCommonAncestor ==
    Called("getRustPathTo") =>
        output.ret = JoinedRustNames(tree, BelowCommonAncestor(tree, input.this, input.other))
                         \o input.itemName

\* A path asked from a namespace below the root to a namespace below it.
C17_Witness ==
    /\ Called("getRustPathTo")
    /\ input.this # RootNamespace
    /\ Len(BelowCommonAncestor(tree, input.this, input.other)) = 1
    /\ CommonLength(ChainTo(tree, input.this), ChainTo(tree, input.other)) = 2

GetOrCreateCalls == { "getOrCreateSubNamespace", "getOrCreateClass", "getOrCreateInterface" }

\* The returns logged in t for the method fn on this under the escaped name.
EarlierReturns(t, fn, this, rustName) ==
    { e \in t.log : e.fn = fn /\ e.this = this /\ e.rustName = rustName }

\* C18: getOrCreateSubNamespace, getOrCreateClass and getOrCreateInterface are
\* idempotent per escaped name: a second call with the same escaped name on
\* the same namespace returns the node of the first call, creates nothing and
\* leaves every node, the docs of the first call included, unchanged.
C18_GetOrCreateIsIdempotent ==
    (input # <<>> /\ output # <<>> /\ input.fn \in GetOrCreateCalls /\ ~output.threw) =>
        \A e \in EarlierReturns(output.before, input.fn, input.this,
                                escapeRustName(input.jsName)) :
            /\ output.ret = e.ret
            /\ tree.namespaces = output.before.namespaces
            /\ tree.items = output.before.items

\* C19: getOrCreateSubNamespace("") throws from the Namespace constructor and
\* adds no entry, and the root is the only namespace without a parent and the
\* only one with an empty name.
C19_OnlyRootIsNameless ==
    /\ (Called("getOrCreateSubNamespace") /\ input.jsName = <<>>) =>
          /\ output.threw
          /\ tree.namespaces = output.before.namespaces
    /\ \A n \in 1..Len(tree.namespaces) :
          /\ tree.namespaces[n].parent = NoObject <=> n = RootNamespace
          /\ tree.namespaces[n].jsName = <<>> <=> n = RootNamespace
          /\ tree.namespaces[n].rustName = <<>> <=> n = RootNamespace

\* getOrCreateSubNamespace("") has been called on a namespace below the root.
C19_Witness ==
    /\ Called("getOrCreateSubNamespace")
    /\ input.jsName = <<>>
    /\ input.this # RootNamespace
    /\ output.threw

-----------------------------------------------------------------------------
(* Properties of the ListOfFunctions of codegen.ts *)

InCodegenLoop ==
    input # <<>> /\ output # <<>> /\ input.fn = "codegen.getResolvedFunctions"

\* C30: getResolvedFunctions() of codegen.ts terminates for every finite
\* list: the pending set shrinks in every pass in which a function claims a
\* free candidate name, and no function is given more than one name.
C30_PendingShrinksOnClaim ==
    /\ [][ (InCodegenLoop /\ InCodegenLoop' /\ Len(output'.result) > Len(output.result))
           => Len(output'.notResolvedYet) < Len(output.notResolvedYet) ]_vars
    /\ [] (InCodegenLoop => Len(output.result) <= Len(input.functions))

-----------------------------------------------------------------------------
(* Properties of the closure registry *)

\* The last call was collectClosure.
ClosureCalled == input # <<>> /\ input.fn = "collectClosure"

\* The registry the last call found held a signature that is the same as the
\* one of the call.
WasRegistered ==
    \E k \in 1..Len(output.before) : FunctionTypeCmp(output.before[k], input.signature) = 0

\* C25: after any sequence of collectClosure calls no two entries of the
\* registry have FunctionType.cmp == 0, the FunctionType the last call
\* returned is an entry of the registry, and a call with a signature that is
\* the same as a registered one returned that registered instance and left
\* the registry as it was.
C25_RegistryHoldsOnePerSignature ==
    ClosureCalled =>
        /\ \A i, j \in 1..Len(closures) :
              i # j => FunctionTypeCmp(closures[i], closures[j]) # 0
        /\ ret \in Range(closures)
        /\ FunctionTypeCmp(ret, input.signature) = 0
        /\ WasRegistered =>
              /\ closures = output.before
              /\ ret \in Range(output.before)
        /\ ~WasRegistered => closures = Append(output.before, input.signature)

\* A call with a signature that is the same as a registered one but is
\* another instance (it differs in returnJsType).
C25_Witness ==
    /\ ClosureCalled
    /\ WasRegistered
    /\ input.signature \notin Range(output.before)
    /\ Len(closures) >= 2

\* The parameter types in order and the return type of a and b are the same.
SameParameterAndReturnTypes(a, b) ==
    /\ Len(a.args) = Len(b.args)
    /\ \A i \in 1..Len(a.args) : typesAreSame(a.args[i].type, b.args[i].type)
    /\ typesAreSame(a.returnType, b.returnType)

\* C26: two function types with the same parameter types in order and the
\* same return type are one entry of the registry, and two distinct entries
\* get different names from underscoreEscapeSignature with the same base.
C26_SameShapeCollapsesAndNamesDiffer ==
    \A i, j \in 1..Len(closures) :
        i # j =>
            /\ ~SameParameterAndReturnTypes(closures[i], closures[j])
            /\ \A base \in SyntheticBases :
                  underscoreEscapeSignature(closures[i], base)
                      # underscoreEscapeSignature(closures[j], base)

====
